---- MODULE Spec2Model ----
(***************************************************************************)
(* Offer-resolution, order-lifecycle and token-ledger engine of            *)
(* user-credits-core: BaseService (ledger updater, expiry sweeper) and     *)
(* PaymentService (lifecycle orchestration around the payment gateway).    *)
(*                                                                         *)
(* Dates are integers counted in days.  An optional value (undefined/null  *)
(* in the source) is a sequence of length 0 or 1.                          *)
(***************************************************************************)
EXTENDS Integers, Sequences, FiniteSets, TLC

\* ---------------------------------------------------------------- bounds
MaxTime == 1
MaxOrders == 3
MaxTimetable == 3
MaxIntents == 1
MaxOps == 3

\* ------------------------------------------------------- optional values
Undefined == <<>>
Some(v) == <<v>>
IsSet(x) == x # Undefined
\* x ?? d
OrElse(x, d) == IF x = Undefined THEN d ELSE x[1]
\* x || 1
OrOne(x) == IF x = Undefined \/ x[1] = 0 THEN 1 ELSE x[1]
\* x || 0
OrZero(x) == IF x = Undefined THEN 0 ELSE x[1]

SecondsPerDay == 86400

\* ------------------------------------------------------------- utilities
RECURSIVE SeqSum(_)
SeqSum(s) == IF s = <<>> THEN 0 ELSE Head(s) + SeqSum(Tail(s))

\* index of the first element of s satisfying P, 0 when there is none
FirstIndex(s, P(_)) ==
  IF \E i \in 1..Len(s) : P(s[i])
  THEN CHOOSE i \in 1..Len(s) : P(s[i]) /\ \A j \in 1..(i - 1) : ~P(s[j])
  ELSE 0

SetMax(S) == CHOOSE m \in S : \A x \in S : x <= m

\* ------------------------------------------------------------ the domain
Users == {"u1", "u2"}
OfferGroups == {"A", "B"}
Quantities == {Undefined, Some(2)}
GatewayStatuses == {"paid", "refused"}
\* the numbers of tokens consumed at once
Counts == {1}

\* date arithmetic of ../util (addDays, addSeconds), dates counted in days
addDays(date, n) == date + n
addSeconds(date, s) == date + (s \div SecondsPerDay)

\* calendar arithmetic of ../util (addMonths, addYears) on a calendar of common
\* years: the day of the month is kept, or clamped to the end of a shorter month
DaysPerYear == 365
MonthDays == <<31, 28, 31, 30, 31, 30, 31, 31, 30, 31, 30, 31>>
DaysBefore(month) == SeqSum(SubSeq(MonthDays, 1, month - 1))
MonthOf(dayOfYear) ==
  CHOOSE month \in 1..12 :
    DaysBefore(month) <= dayOfYear /\ dayOfYear < DaysBefore(month) + MonthDays[month]

addMonths(date, n) ==
  LET dayOfYear == date % DaysPerYear
      month == MonthOf(dayOfYear)
      day == dayOfYear - DaysBefore(month)
      months == (date \div DaysPerYear) * 12 + (month - 1) + n
      target == (months % 12) + 1
      last == MonthDays[target] - 1
  IN (months \div 12) * DaysPerYear + DaysBefore(target)
       + (IF day < last THEN day ELSE last)

addYears(date, n) == addMonths(date, 12 * n)

\* ------------------------------------------------------------- catalogs
\* IOffer, reduced to the fields the engine reads
Offer(g, cy, cc, tc, pr, ad, items) ==
  [offerGroup |-> g, cycle |-> cy, customCycle |-> cc, tokenCount |-> tc,
   price |-> pr, quantityLimit |-> Undefined, appendDate |-> ad,
   combinedItems |-> items]

\* ICombinedOffer
Item(g, id, q) ==
  [offerGroup |-> g, offerId |-> id, quantity |-> q, cycle |-> Undefined,
   customCycle |-> Undefined, tokenCount |-> Undefined, userId |-> Undefined]

\* plain offers: a priced one and a free one appended after the running expiry
PlainCatalog ==
  [id \in {"o1", "o2"} |->
     IF id = "o1" THEN Offer("A", "daily", Undefined, Some(2), 1, FALSE, <<>>)
     ELSE Offer("A", "daily", Undefined, Some(1), 0, TRUE, <<>>)]

\* a bundle whose two items target the same offerGroup
BundleCatalog ==
  [id \in {"o1", "o3"} |->
     IF id = "o1" THEN Offer("A", "daily", Undefined, Some(2), 1, FALSE, <<>>)
     ELSE Offer("B", "daily", Undefined, Some(1), 2, FALSE,
                <<Item("A", "o1", Some(2)), Item("A", "o1", Undefined)>>)]

\* a free package without tokens of its own, whose item targets the package's
\* own offerGroup and is appended after the running expiry
SelfBundleCatalog ==
  [id \in {"o2", "o4"} |->
     IF id = "o2" THEN Offer("A", "daily", Undefined, Some(1), 0, TRUE, <<>>)
     ELSE Offer("A", "custom", Some(SecondsPerDay), Undefined, 0, FALSE,
                <<Item("A", "o2", Some(2))>>)]

\* two free offers, one per offerGroup, the first appended after the running expiry
UsersCatalog ==
  [id \in {"o2", "o5"} |->
     IF id = "o2" THEN Offer("A", "daily", Undefined, Some(1), 0, TRUE, <<>>)
     ELSE Offer("B", "daily", Undefined, Some(1), 0, FALSE, <<>>)]

\* a free one-time package of group B whose item is a one-time offer of group A
OnceBundleCatalog ==
  [id \in {"o10", "o11"} |->
     IF id = "o10" THEN Offer("A", "once", Undefined, Some(1), 0, FALSE, <<>>)
     ELSE Offer("B", "once", Undefined, Some(1), 0, FALSE,
                <<Item("A", "o10", Undefined)>>)]

Catalogs == {PlainCatalog, BundleCatalog, SelfBundleCatalog}

\* offerDao.findById / findOne
FindOffer(cat, id) == IF id \in DOMAIN cat THEN Some(cat[id]) ELSE Undefined

\* --------------------------------------------------- Date/Cycle calculator
\* result of a computation that may throw
Ok(v) == [err |-> "", val |-> v]
Throw(e) == [err |-> e, val |-> 0]

\* faulty variant: the quantity bought is ignored
calculateExpiryDateOneCycle(order, quantityMultiplier) ==
  LET date == order.starts
  IN CASE order.cycle = "once" -> Ok(date)
       [] order.cycle = "daily" -> Ok(addDays(date, 1))
       [] order.cycle = "weekly" -> Ok(addDays(date, 7))
       [] order.cycle = "bi-weekly" -> Ok(addDays(date, 14))
       [] order.cycle = "custom" ->
            IF IsSet(order.customCycle) /\ order.customCycle[1] >= 0
            THEN Ok(addSeconds(date, order.customCycle[1]))
            ELSE Throw("InvalidCycle")
       [] OTHER -> Throw("InvalidCycle")

\* faulty variant: a semester counts six months
calculateExpiryDateLongSemester(order, quantityMultiplier) ==
  LET quantity == OrElse(order.quantity, 1)
      totalQuantity == OrElse(quantityMultiplier, 1) * quantity
      date == order.starts
  IN CASE order.cycle = "once" -> Ok(date)
       [] order.cycle = "daily" -> Ok(addDays(date, totalQuantity))
       [] order.cycle = "weekly" -> Ok(addDays(date, 7 * totalQuantity))
       [] order.cycle = "bi-weekly" -> Ok(addDays(date, 14 * totalQuantity))
       [] order.cycle = "monthly" -> Ok(addMonths(date, totalQuantity))
       [] order.cycle = "trimester" -> Ok(addMonths(date, 3 * totalQuantity))
       [] order.cycle = "semester" -> Ok(addMonths(date, 6 * totalQuantity))
       [] order.cycle = "yearly" -> Ok(addYears(date, totalQuantity))
       [] order.cycle = "custom" ->
            IF IsSet(order.customCycle) /\ order.customCycle[1] >= 0
            THEN Ok(addSeconds(date, order.customCycle[1] * totalQuantity))
            ELSE Throw("InvalidCycle")
       [] OTHER -> Throw("InvalidCycle")

calculateExpiryDate(order, quantityMultiplier) ==
  LET quantity == OrElse(order.quantity, 1)
      totalQuantity == OrElse(quantityMultiplier, 1) * quantity
      date == order.starts
  IN CASE order.cycle = "once" -> Ok(date)
       [] order.cycle = "daily" -> Ok(addDays(date, totalQuantity))
       [] order.cycle = "weekly" -> Ok(addDays(date, 7 * totalQuantity))
       [] order.cycle = "bi-weekly" -> Ok(addDays(date, 14 * totalQuantity))
       [] order.cycle = "monthly" -> Ok(addMonths(date, totalQuantity))
       [] order.cycle = "trimester" -> Ok(addMonths(date, 3 * totalQuantity))
       [] order.cycle = "semester" -> Ok(addMonths(date, 4 * totalQuantity))
       [] order.cycle = "yearly" -> Ok(addYears(date, totalQuantity))
       [] order.cycle = "custom" ->
            IF IsSet(order.customCycle) /\ order.customCycle[1] >= 0
            THEN Ok(addSeconds(date, order.customCycle[1] * totalQuantity))
            ELSE Throw("InvalidCycle")
       [] OTHER -> Throw("InvalidCycle")

\* faulty variant: the paid orders of every user are listed
PaidOrdersWithExpiryAnyUser(ordersDb, userId, offerGroup) ==
  { i \in 1..Len(ordersDb) :
      /\ ordersDb[i].offerGroup = offerGroup
      /\ ordersDb[i].status = "paid"
      /\ IsSet(ordersDb[i].expires) }

\* orderDao.find({expires: {$exists: true}, offerGroup, status: "paid", userId})
PaidOrdersWithExpiry(ordersDb, userId, offerGroup) ==
  { i \in 1..Len(ordersDb) :
      /\ ordersDb[i].userId = userId
      /\ ordersDb[i].offerGroup = offerGroup
      /\ ordersDb[i].status = "paid"
      /\ IsSet(ordersDb[i].expires) }

\* faulty variant: an explicit start date is accepted even when it has passed
computeStartDateAnyExplicit(ordersDb, cat, order, t) ==
  IF IsSet(order.starts)
  THEN Ok(order.starts[1])
  ELSE LET offer == FindOffer(cat, order.offerId)
           appendDate == IF IsSet(offer) THEN offer[1].appendDate ELSE FALSE
           orderList == PaidOrdersWithExpiry(ordersDb, order.userId, order.offerGroup)
       IN IF ~appendDate THEN Ok(t)
          ELSE IF orderList = {} THEN Ok(t)
          ELSE LET starts == SetMax({ordersDb[i].expires[1] : i \in orderList})
               IN Ok(IF starts > t THEN starts ELSE t)

computeStartDate(ordersDb, cat, order, t) ==
  IF IsSet(order.starts)
  THEN IF t > order.starts[1] THEN Throw("InvalidOrderError") ELSE Ok(order.starts[1])
  ELSE LET offer == FindOffer(cat, order.offerId)
           appendDate == IF IsSet(offer) THEN offer[1].appendDate ELSE FALSE
           orderList == PaidOrdersWithExpiry(ordersDb, order.userId, order.offerGroup)
       IN IF ~appendDate THEN Ok(t)
          ELSE IF orderList = {} THEN Ok(t)
          ELSE LET starts == SetMax({ordersDb[i].expires[1] : i \in orderList})
               IN Ok(IF starts > t THEN starts ELSE t)

\* ------------------------------------------------------ balance application
ActivatedOffer(g, st, ex, tk) ==
  [offerGroup |-> g, starts |-> st, expires |-> ex, tokens |-> tk]

GroupIndex(ucOffers, g) == FirstIndex(ucOffers, LAMBDA o : o.offerGroup = g)

\* faulty variant: a new ActivatedOffer is pushed whether or not the group is there
appendOrPushActiveOfferAlwaysPush(ucOffers, activeOffer) ==
  Append(ucOffers, activeOffer)

appendOrPushActiveOffer(ucOffers, activeOffer) ==
  LET i == GroupIndex(ucOffers, activeOffer.offerGroup)
  IN IF i # 0
     THEN [ucOffers EXCEPT ![i] =
             [@ EXCEPT !.expires = activeOffer.expires,
                       !.starts = activeOffer.starts,
                       !.tokens = IF @ # 0 /\ activeOffer.tokens # 0
                                  THEN @ + activeOffer.tokens ELSE @]]
     ELSE Append(ucOffers, activeOffer)

\* ------------------------------------------------------------ ledger updater
\* ICombinedOrder
CombinedOrder(g, id, q, tc, cy, st, ex) ==
  [offerGroup |-> g, offerId |-> id, quantity |-> q, tokenCount |-> tc,
   cycle |-> cy, starts |-> st, expires |-> ex]

\* ITokenTimetable
TimetableEntry(u, g, tk, t) ==
  [userId |-> u, offerGroup |-> g, tokens |-> tk, createdAt |-> t]

\* the working state of one payment application: the persisted orders and
\* ledger, the in-memory balance sheet and root order, and the error thrown

\* the tail of updateNestedItemDateAndTokens, once the dates are computed
NestedActiveOffer(st, offer, rootOrder, orderItemSpec, started, expired) ==
  LET tokenCount == IF OrZero(orderItemSpec.tokenCount) = 0 /\ OrZero(offer.tokenCount) # 0
                    THEN offer.tokenCount ELSE orderItemSpec.tokenCount
      rootActiveOffer == st.offers[GroupIndex(st.offers, rootOrder.offerGroup)]
      starts == IF offer.appendDate THEN Some(started.val) ELSE rootActiveOffer.starts
      expires == IF offer.appendDate THEN Some(expired.val) ELSE rootActiveOffer.expires
      tokens == OrOne(rootOrder.quantity) * OrOne(orderItemSpec.quantity) * OrZero(tokenCount)
  IN IF offer.appendDate /\ expired.err # ""
     THEN [st EXCEPT !.err = expired.err]
     ELSE [st EXCEPT !.offers = appendOrPushActiveOffer(
                         @, ActivatedOffer(orderItemSpec.offerGroup, starts, expires, tokens))]

\* the expiry of a bundle item that starts at started
NestedExpiry(offer, rootOrder, orderItemSpec, started) ==
  calculateExpiryDate(
    [quantity |-> orderItemSpec.quantity, starts |-> started.val,
     cycle |-> IF IsSet(orderItemSpec.cycle) THEN orderItemSpec.cycle[1] ELSE offer.cycle,
     customCycle |-> orderItemSpec.customCycle],
    rootOrder.quantity)

\* the tail of updateNestedItemDateAndTokens, once the start date is computed
NestedDates(st, offer, rootOrder, orderItemSpec, started) ==
  NestedActiveOffer(st, offer, rootOrder, orderItemSpec, started,
                    NestedExpiry(offer, rootOrder, orderItemSpec, started))

updateNestedItemDateAndTokens(st, offer, rootOrder, orderItemSpec, cat, t) ==
  NestedDates(st, offer, rootOrder, orderItemSpec,
              computeStartDate(st.orders, cat,
                               [starts |-> Undefined, offerId |-> orderItemSpec.offerId,
                                offerGroup |-> orderItemSpec.offerGroup,
                                userId |-> rootOrder.userId],
                               t))

\* the tail of updateNestedItemAsPaid: the child order and ledger line written
\* once the ActivatedOffer of the item is computed (st1)
NestedRecords(st1, offer, orderItemSpec, rootOrder, t) ==
  LET computed == st1.offers[GroupIndex(st1.offers, orderItemSpec.offerGroup)]
      quantity == OrOne(orderItemSpec.quantity) * OrOne(rootOrder.quantity)
      tokenCount == IF OrZero(offer.tokenCount) # 0
                    THEN offer.tokenCount[1] * quantity ELSE 0
      nested == CombinedOrder(orderItemSpec.offerGroup, orderItemSpec.offerId,
                              Some(quantity), tokenCount, Some(offer.cycle),
                              computed.starts, computed.expires)
      child == [offerId |-> orderItemSpec.offerId, userId |-> rootOrder.userId,
                offerGroup |-> orderItemSpec.offerGroup, cycle |-> offer.cycle,
                customCycle |-> offer.customCycle, quantity |-> Some(quantity),
                total |-> 0, status |-> "paid", starts |-> computed.starts,
                expires |-> computed.expires, tokenCount |-> Some(tokenCount),
                combinedItems |-> <<>>, history |-> <<>>,
                parentId |-> Some(rootOrder.id), paymentIntentId |-> Undefined,
                id |-> Len(st1.orders) + 1]
  IN IF st1.err # "" THEN st1
     ELSE [st1 EXCEPT
             !.rootItems = Append(@, nested),
             !.orders = Append(@, child),
             !.tt = Append(@, TimetableEntry(rootOrder.userId, orderItemSpec.offerGroup,
                                             OrZero(offer.tokenCount) * quantity, t))]

\* the rest of updateNestedItemAsPaid, once the item's offer is loaded
NestedWithOffer(st, offer, orderItemSpec, rootOrder, cat, t) ==
  NestedRecords(updateNestedItemDateAndTokens(st, offer, rootOrder, orderItemSpec, cat, t),
                offer, orderItemSpec, rootOrder, t)

updateNestedItemAsPaid(st, orderItemSpec, rootOrder, cat, t) ==
  IF orderItemSpec.offerId \notin DOMAIN cat THEN [st EXCEPT !.err = "TypeError"]
  ELSE NestedWithOffer(st, cat[orderItemSpec.offerId], orderItemSpec, rootOrder, cat, t)

RECURSIVE NestedItemsLoop(_, _, _, _, _)
NestedItemsLoop(st, combinedItems, rootOrder, cat, t) ==
  IF combinedItems = <<>> \/ st.err # "" THEN st
  ELSE NestedItemsLoop(updateNestedItemAsPaid(st, Head(combinedItems), rootOrder, cat, t),
                       Tail(combinedItems), rootOrder, cat, t)

\* the order as updateAsPaid leaves it before the bundle items are expanded
PaidOrder(order, started, expired) ==
  [order EXCEPT !.starts = Some(started.val), !.expires = Some(expired.val),
                !.tokenCount = Some(OrOne(order.quantity) * OrZero(order.tokenCount))]

\* what updateAsPaid returns: the working state and the in-memory order
PaidResult(st2, order1) ==
  [st |-> st2, order |-> [order1 EXCEPT !.combinedItems = st2.rootItems]]

\* the tail of updateAsPaid: balance application and the loop over the items
PaidItems(st0, order1, cat, t) ==
  PaidResult(
    NestedItemsLoop(
      [st0 EXCEPT !.offers = appendOrPushActiveOffer(
                     @, ActivatedOffer(order1.offerGroup, order1.starts, order1.expires,
                                       order1.tokenCount[1]))],
      cat[order1.offerId].combinedItems, order1, cat, t),
    order1)

\* the tail of updateAsPaid, once the dates are computed
PaidDates(st0, order, cat, t, started, expired) ==
  IF started.err # "" THEN [st |-> [st0 EXCEPT !.err = started.err], order |-> order]
  ELSE IF expired.err # "" THEN [st |-> [st0 EXCEPT !.err = expired.err], order |-> order]
  ELSE IF order.offerId \notin DOMAIN cat
  THEN [st |-> [st0 EXCEPT !.err = "InvalidOrderError"], order |-> order]
  ELSE PaidItems(st0, PaidOrder(order, started, expired), cat, t)

\* the tail of updateAsPaid, once the start date is computed
PaidStart(st0, order, cat, t, started) ==
  PaidDates(st0, order, cat, t, started,
            calculateExpiryDate([order EXCEPT !.starts = started.val], Undefined))

\* returns the working state and the updated in-memory order
updateAsPaid(ordersDb, ttDb, ucOffers, order, cat, t) ==
  PaidStart([orders |-> ordersDb, tt |-> ttDb, offers |-> ucOffers,
             rootItems |-> order.combinedItems, err |-> ""],
            order, cat, t, computeStartDate(ordersDb, cat, order, t))

\* ------------------------------------------------------------ subscriptions
\* ISubscription, reduced to the fields the lifecycle writes
Subscription(oid, offId, g, st, ex, status) ==
  [orderId |-> oid, offerId |-> offId, offerGroup |-> g, starts |-> st,
   expires |-> ex, status |-> status]

RECURSIVE ItemSubscriptions(_, _)
ItemSubscriptions(combinedItems, order) ==
  IF combinedItems = <<>> THEN <<>>
  ELSE LET offerItem == Head(combinedItems)
           k == FirstIndex(order.combinedItems,
                           LAMBDA item : item.offerGroup = offerItem.offerGroup)
           st == IF k # 0 /\ IsSet(order.combinedItems[k].starts)
                 THEN order.combinedItems[k].starts ELSE order.starts
           ex == IF k # 0 /\ IsSet(order.combinedItems[k].expires)
                 THEN order.combinedItems[k].expires ELSE order.expires
       IN <<Subscription(order.id, offerItem.offerId, offerItem.offerGroup, st, ex, "pending")>>
          \o ItemSubscriptions(Tail(combinedItems), order)

buildSubscriptionList(offer, order) ==
  ItemSubscriptions(offer.combinedItems, order)
    \o <<Subscription(order.id, order.offerId, offer.offerGroup,
                      order.starts, order.expires, "pending")>>

RECURSIVE MergeSubscriptions(_, _, _)
MergeSubscriptions(subscriptions, subscriptionList, order) ==
  IF subscriptionList = <<>> THEN subscriptions
  ELSE LET subscription == [Head(subscriptionList) EXCEPT !.status = order.status]
           k == FirstIndex(subscriptions,
                           LAMBDA uc : uc.orderId = order.id /\ uc.offerId = subscription.offerId)
           merged == IF k # 0
                     THEN [subscriptions EXCEPT ![k] =
                             [@ EXCEPT !.expires = subscription.expires,
                                       !.starts = subscription.starts,
                                       !.status = subscription.status]]
                     ELSE Append(subscriptions, subscription)
       IN MergeSubscriptions(merged, Tail(subscriptionList), order)

\* IUserCredits
UserCredits(id, subs, offs) == [id |-> id, subscriptions |-> subs, offers |-> offs]

\* the identifier storage gives a new aggregate: the user's id or one of its own
CreditIds(u) == {u, IF u = "u1" THEN "c1" ELSE "c2"}

updateSubscriptionsOnOrderChange(userCredits, offer, order, newId) ==
  LET subscriptionList == buildSubscriptionList(offer, order)
  IN IF ~IsSet(userCredits)
     THEN UserCredits(newId, subscriptionList, <<>>)
     ELSE [userCredits[1] EXCEPT
             !.subscriptions = MergeSubscriptions(@, subscriptionList, order)]

\* the offer updateCredits works with: the stored one, or the order itself
\* standing in for an offer that was deleted meanwhile
OfferOrOrder(cat, order) ==
  IF order.offerId \in DOMAIN cat THEN cat[order.offerId]
  ELSE [offerGroup |-> order.offerGroup, combinedItems |-> order.combinedItems]

\* the tail of updateCredits: the ledger line of the root order and the
\* subscriptions, once the order was applied (paid) or left as it is
CreditsResult(st1, order1, userCredits, offer, t) ==
  LET st2 == IF order1.status = "paid" /\ st1.err = "" /\ OrZero(order1.tokenCount) # 0
             THEN [st1 EXCEPT !.tt = Append(@, TimetableEntry(
                      order1.userId, order1.offerGroup, order1.tokenCount[1], t))]
             ELSE st1
  IN [st |-> st2, order |-> order1,
      userCredits |-> IF st1.err = ""
                      THEN updateSubscriptionsOnOrderChange(
                             Some([userCredits EXCEPT !.offers = st1.offers]),
                             offer, order1, userCredits.id)
                      ELSE userCredits]

\* the tail of updateCredits for a paid order
CreditsPaid(paid, userCredits, offer, t) ==
  CreditsResult(paid.st, paid.order, userCredits, offer, t)

\* faulty variant: the payment is applied whatever status the order carries
updateCreditsAnyStatus(ordersDb, ttDb, userCredits, updatedOrder, cat, t) ==
  CreditsPaid(updateAsPaid(ordersDb, ttDb, userCredits.offers, updatedOrder, cat, t),
              userCredits, OfferOrOrder(cat, updatedOrder), t)

\* returns the working state, the in-memory order and the in-memory aggregate
updateCredits(ordersDb, ttDb, userCredits, updatedOrder, cat, t) ==
  IF updatedOrder.status = "paid"
  THEN CreditsPaid(updateAsPaid(ordersDb, ttDb, userCredits.offers, updatedOrder, cat, t),
                   userCredits, OfferOrOrder(cat, updatedOrder), t)
  ELSE CreditsResult([orders |-> ordersDb, tt |-> ttDb, offers |-> userCredits.offers,
                      rootItems |-> updatedOrder.combinedItems, err |-> ""],
                     updatedOrder, userCredits, OfferOrOrder(cat, updatedOrder), t)

\* --------------------------------------------------------------- the state
VARIABLES offers, orders, userCredits, tokenTimetable, now, held, lastOp, ops, calls

vars == <<offers, orders, userCredits, tokenTimetable, now, held, lastOp, ops, calls>>

\* what the last operation was and how it ended
Op(name, u, oid, err, gw, expired, warnings) ==
  [op |-> name, user |-> u, orderId |-> oid, err |-> err, gateway |-> gw,
   expired |-> expired, warnings |-> warnings]

Init ==
  /\ offers \in Catalogs
  /\ orders = <<>>
  /\ userCredits = [u \in Users |-> Undefined]
  /\ tokenTimetable = <<>>
  /\ now = 0
  /\ held = Undefined
  /\ lastOp = Op("init", "", 0, "", FALSE, <<>>, <<>>)
  /\ ops = 0
  /\ calls = <<>>

\* one more operation within the budget of the run
Step == ops < MaxOps /\ ops' = ops + 1

\* ----------------------------------------------------- lifecycle orchestrator
afterFreeOrderExecuted(order) ==
  [order EXCEPT !.status = "paid", !.history = Append(@, "paid")]

\* paymentClient.afterPaymentExecuted: the order with the status the gateway reports
afterPaymentExecuted(order, status) == [order EXCEPT !.status = status]

\* order.save(): the paths the payment application assigned
SaveOrder(stored, updatedOrder) ==
  IF updatedOrder.status = "paid"
  THEN [stored EXCEPT !.status = updatedOrder.status, !.history = updatedOrder.history,
                      !.starts = updatedOrder.starts, !.expires = updatedOrder.expires,
                      !.tokenCount = updatedOrder.tokenCount,
                      !.combinedItems = updatedOrder.combinedItems]
  ELSE [stored EXCEPT !.status = updatedOrder.status, !.history = updatedOrder.history]

\* faulty variant: the duplicate-attempt guard is gone
AlreadyPaidNever(order) == FALSE

AlreadyPaid(order) == order.status = "paid"

\* the end of afterExecute: the order and the aggregate are saved unless the
\* ledger update threw
SaveAll(ucDb, order, r) ==
  IF r.st.err # ""
  THEN [orders |-> r.st.orders, userCredits |-> ucDb, tt |-> r.st.tt,
        err |-> r.st.err, gateway |-> order.total > 0]
  ELSE [orders |-> [r.st.orders EXCEPT ![order.id] = SaveOrder(@, r.order)],
        userCredits |-> [ucDb EXCEPT ![order.userId] = Some(r.userCredits)],
        tt |-> r.st.tt, err |-> "", gateway |-> order.total > 0]

\* the persisted state after afterExecute(order), and the error it raised
afterExecute(ordersDb, ucDb, ttDb, order, status, cat, t) ==
  IF AlreadyPaid(order)
  THEN [orders |-> ordersDb, userCredits |-> ucDb, tt |-> ttDb,
        err |-> "DuplicateAttemptError", gateway |-> FALSE]
  ELSE IF ~IsSet(ucDb[order.userId])
  THEN [orders |-> ordersDb, userCredits |-> ucDb, tt |-> ttDb,
        err |-> "PaymentError", gateway |-> FALSE]
  ELSE SaveAll(ucDb, order,
               updateCredits(ordersDb, ttDb, ucDb[order.userId][1],
                             IF order.total > 0 THEN afterPaymentExecuted(order, status)
                             ELSE afterFreeOrderExecuted(order),
                             cat, t))

\* what an afterExecute on order leaves in storage, and how it ended
Persist(r, name, order) ==
  /\ orders' = r.orders
  /\ userCredits' = r.userCredits
  /\ tokenTimetable' = r.tt
  /\ lastOp' = Op(name, order.userId, order.id, r.err, r.gateway, <<>>, <<>>)

NumItems(cat, order) ==
  IF order.offerId \in DOMAIN cat THEN Len(cat[order.offerId].combinedItems) ELSE 0

\* room for the child orders and ledger lines one payment application writes
RoomFor(order) ==
  /\ Len(orders) + NumItems(offers, order) <= MaxOrders
  /\ Len(tokenTimetable) + NumItems(offers, order) + 1 <= MaxTimetable

\* afterExecute called with the order as stored
AfterExecute(id, status) ==
  /\ Step
  /\ RoomFor(orders[id])
  /\ Persist(afterExecute(orders, userCredits, tokenTimetable, orders[id], status, offers, now),
             "afterExecute", orders[id])
  /\ UNCHANGED <<offers, now, held, calls>>

\* afterExecute called with the copy createOrder or payOrder returned earlier
AfterExecuteHeld(status) ==
  /\ Step
  /\ IsSet(held)
  /\ held[1] # orders[held[1].id]
  /\ RoomFor(held[1])
  /\ Persist(afterExecute(orders, userCredits, tokenTimetable, held[1], status, offers, now),
             "afterExecuteHeld", held[1])
  /\ UNCHANGED <<offers, now, held, calls>>

\* ------------------------------------------------------------ order builder
\* faulty variant: the quantity is not compared with the limit
computeTotalNoLimit(quantity, offer) ==
  Ok(IF IsSet(quantity) THEN offer.price * quantity[1] ELSE offer.price)

computeTotal(quantity, offer) ==
  IF IsSet(offer.quantityLimit) /\ IsSet(quantity) /\ quantity[1] > offer.quantityLimit[1]
  THEN Throw("InvalidOrderError")
  ELSE Ok(IF IsSet(quantity) THEN offer.price * quantity[1] ELSE offer.price)

\* faulty variant: the items after an unresolvable one are dropped
RECURSIVE prefillCombinedOrdersUntilMissing(_, _)
prefillCombinedOrdersUntilMissing(cat, combinedItems) ==
  IF combinedItems = <<>> THEN <<>>
  ELSE LET item == Head(combinedItems)
           combinedOffer == FindOffer(cat, item.offerId)
       IN IF ~IsSet(combinedOffer) THEN <<>>
          ELSE <<CombinedOrder(item.offerGroup, item.offerId, item.quantity,
                               OrOne(item.quantity) * OrZero(combinedOffer[1].tokenCount),
                               Undefined, Undefined, Undefined)>>
               \o prefillCombinedOrdersUntilMissing(cat, Tail(combinedItems))

RECURSIVE prefillCombinedOrders(_, _)
prefillCombinedOrders(cat, combinedItems) ==
  IF combinedItems = <<>> THEN <<>>
  ELSE LET item == Head(combinedItems)
           combinedOffer == FindOffer(cat, item.offerId)
           rest == prefillCombinedOrders(cat, Tail(combinedItems))
       IN IF ~IsSet(combinedOffer) THEN rest
          ELSE <<CombinedOrder(item.offerGroup, item.offerId, item.quantity,
                               OrOne(item.quantity) * OrZero(combinedOffer[1].tokenCount),
                               Undefined, Undefined, Undefined)>> \o rest

\* the pending order orderDao.create stores
NewOrder(id, offerId, offer, userId, quantity, total) ==
  [id |-> id, offerId |-> offerId, userId |-> userId, offerGroup |-> offer.offerGroup,
   cycle |-> offer.cycle, customCycle |-> offer.customCycle, quantity |-> quantity,
   total |-> total, status |-> "pending", starts |-> Undefined, expires |-> Undefined,
   tokenCount |-> offer.tokenCount, combinedItems |-> <<>>, history |-> <<>>,
   parentId |-> Undefined, paymentIntentId |-> Undefined]

\* createOrder of a priced offer: the order is stored, then the gateway is
\* asked for a payment intent (intent is its answer)
CreatePriced(stored, ucDb1, intent) ==
  /\ orders' = Append(orders, IF IsSet(intent) THEN [stored EXCEPT !.paymentIntentId = intent]
                              ELSE stored)
  /\ userCredits' = ucDb1
  /\ lastOp' = Op("createOrder", stored.userId, stored.id,
                  IF IsSet(intent) THEN "" ELSE "InvalidPaymentError", TRUE, <<>>, <<>>)
  /\ held' = IF IsSet(intent) THEN Some(orders'[stored.id]) ELSE held
  /\ UNCHANGED tokenTimetable

\* createOrder of a free offer: the order is stored and applied at once
CreateFree(stored, order, ucDb1) ==
  /\ Len(orders) + 1 + NumItems(offers, order) <= MaxOrders
  /\ Len(tokenTimetable) + NumItems(offers, order) + 1 <= MaxTimetable
  /\ Persist(afterExecute(Append(orders, stored), ucDb1, tokenTimetable, order, "paid",
                          offers, now),
             "createOrder", order)
  /\ held' = IF lastOp'.err = "" THEN Some(orders'[stored.id]) ELSE held

\* PaymentService.createOrder: a priced order gets a payment intent, a free
\* one is applied at once.  intent is what the gateway answers.
CreateOrder(offerId, userId, quantity, intent, newId) ==
  LET offer == offers[offerId]
      total == computeTotal(quantity, offer)
      stored == NewOrder(Len(orders) + 1, offerId, offer, userId, quantity, total.val)
      order == [stored EXCEPT !.combinedItems = prefillCombinedOrders(offers, offer.combinedItems)]
      ucDb1 == [userCredits EXCEPT ![userId] =
                  Some(updateSubscriptionsOnOrderChange(@, offer, order, newId))]
  IN /\ Step
     /\ Len(orders) < MaxOrders
     /\ IsSet(userCredits[userId]) => newId = userCredits[userId][1].id
     /\ IF total.err # ""
        THEN /\ lastOp' = Op("createOrder", userId, 0, total.err, FALSE, <<>>, <<>>)
             /\ UNCHANGED <<orders, userCredits, tokenTimetable, held>>
        ELSE IF total.val > 0
        THEN CreatePriced(stored, ucDb1, intent)
        ELSE CreateFree(stored, order, ucDb1)
     /\ UNCHANGED <<offers, now, calls>>

\* payOrder / payLoadedOrder: the gateway's intent id is saved on the stored order
PayOrder(id, intent) ==
  /\ Step
  /\ OrZero(orders[id].paymentIntentId) < MaxIntents
  /\ orders' = IF IsSet(intent) THEN [orders EXCEPT ![id].paymentIntentId = intent]
               ELSE orders
  /\ lastOp' = Op("payOrder", orders[id].userId, id,
                  IF IsSet(intent) THEN "" ELSE "InvalidPaymentError", TRUE, <<>>, <<>>)
  /\ held' = IF IsSet(intent) THEN Some(orders'[id]) ELSE held
  /\ UNCHANGED <<offers, userCredits, tokenTimetable, now, calls>>

\* -------------------------------------------------------- token consumption
\* faulty variant: a balance of 0 is not lowered
tokensConsumedSkipZero(ucOffers, offerGroup, count, t) ==
  LET i == GroupIndex(ucOffers, offerGroup)
  IN IF i # 0 THEN [ucOffers EXCEPT ![i].tokens = IF @ # 0 THEN @ - count ELSE @]
     ELSE Append(ucOffers, ActivatedOffer(offerGroup, Some(t), Undefined, 0 - count))

tokensConsumed(ucOffers, offerGroup, count, t) ==
  LET i == GroupIndex(ucOffers, offerGroup)
  IN IF i # 0 THEN [ucOffers EXCEPT ![i].tokens = @ - count]
     ELSE Append(ucOffers, ActivatedOffer(offerGroup, Some(t), Undefined, 0 - count))

TokensConsumed(userId, offerGroup, count) ==
  /\ Step
  /\ Len(tokenTimetable) < MaxTimetable
  /\ tokenTimetable' = Append(tokenTimetable, TimetableEntry(userId, offerGroup, 0 - count, now))
  /\ IF IsSet(userCredits[userId])
     THEN /\ userCredits' = [userCredits EXCEPT ![userId] =
                               Some([@[1] EXCEPT !.offers = tokensConsumed(@, offerGroup, count, now)])]
          /\ lastOp' = Op("tokensConsumed", userId, 0, "", FALSE, <<>>, <<>>)
     ELSE /\ UNCHANGED userCredits
          /\ lastOp' = Op("tokensConsumed", userId, 0, "PaymentError", FALSE, <<>>, <<>>)
  /\ UNCHANGED <<offers, orders, now, held, calls>>

\* ------------------------------------------------------------ expiry sweeper
\* the (warnBeforeInMillis, low) arguments tried: none, a low-token threshold
\* on group A alone, and the threshold with a one-day warning
SweepArgs ==
  {<<Undefined, Undefined>>,
   <<Undefined, Some(<<[min |-> 1, offerGroup |-> "A"]>>)>>,
   <<Some(1), Some(<<[min |-> 1, offerGroup |-> "A"]>>)>>}

\* tokenTimetableDao.consumptionInDateRange: the consumption (negative lines)
\* recorded for the offerGroup between the two instants
consumptionInDateRange(ttDb, offerGroup, startDate, endDate) ==
  SeqSum([i \in 1..Len(ttDb) |->
            IF /\ ttDb[i].offerGroup = offerGroup
               /\ ttDb[i].tokens < 0
               /\ ttDb[i].createdAt > startDate
               /\ ttDb[i].createdAt < endDate
            THEN ttDb[i].tokens ELSE 0])

\* faulty variant: the counted orders are not set to expired
RECURSIVE processExpiredOrderGroupKeepStatus(_, _, _, _, _, _)
processExpiredOrderGroupKeepStatus(ordersDb, ttDb, userId, offerGroup, t, i) ==
  IF i > Len(ordersDb) THEN [orders |-> ordersDb, tokensToSubtract |-> 0]
  ELSE LET order == ordersDb[i]
           listed == /\ order.userId = userId
                     /\ order.status = "paid"
                     /\ order.offerGroup = offerGroup
           rest == processExpiredOrderGroupKeepStatus(ordersDb, ttDb, userId, offerGroup, t, i + 1)
       IN IF ~listed \/ order.expires[1] - t > 0
          THEN rest
          ELSE [orders |-> rest.orders,
                tokensToSubtract |->
                  OrZero(order.tokenCount)
                  + consumptionInDateRange(ttDb, offerGroup, order.starts[1], order.expires[1])
                  + rest.tokensToSubtract]

\* faulty variant: the paid orders of every user are listed
RECURSIVE processExpiredOrderGroupAnyUser(_, _, _, _, _, _)
processExpiredOrderGroupAnyUser(ordersDb, ttDb, userId, offerGroup, t, i) ==
  IF i > Len(ordersDb) THEN [orders |-> ordersDb, tokensToSubtract |-> 0]
  ELSE LET order == ordersDb[i]
           listed == /\ order.status = "paid"
                     /\ order.offerGroup = offerGroup
       IN IF ~listed \/ order.expires[1] - t > 0
          THEN processExpiredOrderGroupAnyUser(ordersDb, ttDb, userId, offerGroup, t, i + 1)
          ELSE LET rest == processExpiredOrderGroupAnyUser(
                             [ordersDb EXCEPT ![i].status = "expired"],
                             ttDb, userId, offerGroup, t, i + 1)
               IN [orders |-> rest.orders,
                   tokensToSubtract |->
                     OrZero(order.tokenCount)
                     + consumptionInDateRange(ttDb, offerGroup, order.starts[1], order.expires[1])
                     + rest.tokensToSubtract]

\* the orders orderDao.find({userId, status: "paid", offerGroup}) returns, from index i on
RECURSIVE processExpiredOrderGroup(_, _, _, _, _, _)
processExpiredOrderGroup(ordersDb, ttDb, userId, offerGroup, t, i) ==
  IF i > Len(ordersDb) THEN [orders |-> ordersDb, tokensToSubtract |-> 0]
  ELSE LET order == ordersDb[i]
           listed == /\ order.userId = userId
                     /\ order.status = "paid"
                     /\ order.offerGroup = offerGroup
       IN IF ~listed \/ order.expires[1] - t > 0
          THEN processExpiredOrderGroup(ordersDb, ttDb, userId, offerGroup, t, i + 1)
          ELSE LET rest == processExpiredOrderGroup(
                             [ordersDb EXCEPT ![i].status = "expired"],
                             ttDb, userId, offerGroup, t, i + 1)
               IN [orders |-> rest.orders,
                   tokensToSubtract |->
                     OrZero(order.tokenCount)
                     + consumptionInDateRange(ttDb, offerGroup, order.starts[1], order.expires[1])
                     + rest.tokensToSubtract]

LowLimit(low, offerGroup) ==
  IF IsSet(low) THEN FirstIndex(low[1], LAMBDA spec : spec.offerGroup = offerGroup) ELSE 0

\* the loop over the active offer group states, from index i on
RECURSIVE SweepLoop(_, _, _, _, _, _, _)
SweepLoop(sw, ttDb, userId, warnBeforeInMillis, low, t, i) ==
  IF i > Len(sw.offers) THEN sw
  ELSE LET group == sw.offers[i]
           soon == IsSet(group.expires) /\ group.expires[1] - t <= OrZero(warnBeforeInMillis)
           isExpired == soon /\ group.expires[1] - t <= 0
           processed == processExpiredOrderGroup(sw.orders, ttDb, userId, group.offerGroup, t, 1)
           tokens == IF isExpired THEN group.tokens - processed.tokensToSubtract
                     ELSE group.tokens
           k == LowLimit(low, group.offerGroup)
           isLow == tokens # 0 /\ k # 0 /\ tokens - low[1][k].min <= 0
           sw1 == [orders |-> IF isExpired THEN processed.orders ELSE sw.orders,
                   offers |-> [sw.offers EXCEPT ![i].tokens = tokens],
                   expired |-> IF isExpired THEN Append(sw.expired, group.offerGroup)
                               ELSE sw.expired,
                   warnings |-> sw.warnings
                                  \o (IF soon /\ ~isExpired THEN <<group.offerGroup>> ELSE <<>>)
                                  \o (IF isLow THEN <<group.offerGroup>> ELSE <<>>)]
       IN IF ~IsSet(group.expires)
          THEN SweepLoop(sw, ttDb, userId, warnBeforeInMillis, low, t, i + 1)
          ELSE SweepLoop(sw1, ttDb, userId, warnBeforeInMillis, low, t, i + 1)

\* userCreditsDao.findById(userId): the aggregates whose own identifier is userId
FindCreditsById(ucDb, id) == {u \in Users : IsSet(ucDb[u]) /\ ucDb[u][1].id = id}

\* userCreditsDao.findByUserId(userId): the aggregates kept for the user
FindCreditsByUserId(ucDb, userId) == {u \in Users : u = userId /\ IsSet(ucDb[u])}

InList(list, g) == \E j \in 1..Len(list) : list[j] = g

\* checkForExpiredOrders: what it reads, stores and returns
Sweep(userId, warnBeforeInMillis, low) ==
  LET found == FindCreditsById(userCredits, userId)
  IN /\ IF found = {}
        THEN /\ lastOp' = Op("checkForExpiredOrders", userId, 0, "", FALSE, <<>>, <<>>)
             /\ UNCHANGED <<orders, userCredits>>
        ELSE LET owner == CHOOSE u \in found : TRUE
                 uc == userCredits[owner][1]
                 sw == SweepLoop([orders |-> orders, offers |-> uc.offers,
                                  expired |-> <<>>, warnings |-> <<>>],
                                 tokenTimetable, userId, warnBeforeInMillis, low, now, 1)
                 kept == SelectSeq(sw.offers, LAMBDA o : ~InList(sw.expired, o.offerGroup))
             IN /\ orders' = sw.orders
                /\ userCredits' = IF sw.expired # <<>>
                                  THEN [userCredits EXCEPT ![owner] = Some([uc EXCEPT !.offers = kept])]
                                  ELSE userCredits
                /\ lastOp' = Op("checkForExpiredOrders", userId, 0, "", FALSE,
                                sw.expired, sw.warnings)
     /\ UNCHANGED <<offers, tokenTimetable, now, held, calls>>

CheckForExpiredOrders(userId, warnBeforeInMillis, low) ==
  /\ Step
  /\ Sweep(userId, warnBeforeInMillis, low)

\* the outcome of an operation that returns a number of tokens for an offerGroup
OpReturning(name, u, offerGroup, returned) ==
  [op |-> name, user |-> u, orderId |-> 0, err |-> "", gateway |-> FALSE,
   expired |-> <<>>, warnings |-> <<>>, offerGroup |-> offerGroup, returned |-> returned]

\* processExpiredOrderGroup called on its own
ProcessExpiredOrderGroup(userId, offerGroup) ==
  LET r == processExpiredOrderGroup(orders, tokenTimetable, userId, offerGroup, now, 1)
  IN /\ Step
     /\ orders' = r.orders
     /\ lastOp' = OpReturning("processExpiredOrderGroup", userId, offerGroup, r.tokensToSubtract)
     /\ UNCHANGED <<offers, userCredits, tokenTimetable, now, held, calls>>

\* ------------------------------------------------------------------- time
Tick ==
  /\ now < MaxTime
  /\ now' = now + 1
  /\ lastOp' = Op("tick", "", 0, "", FALSE, <<>>, <<>>)
  /\ UNCHANGED <<offers, orders, userCredits, tokenTimetable, held, ops, calls>>

\* the users that act in the single-user runs
Buyers == {"u1"}

Next ==
  \/ \E offerId \in DOMAIN offers, userId \in Buyers, quantity \in Quantities,
        intent \in {Undefined, Some(1)} :
       \E newId \in CreditIds(userId) :
         CreateOrder(offerId, userId, quantity, intent, newId)
  \/ \E id \in 1..Len(orders) :
       \E intent \in {Undefined, Some(OrZero(orders[id].paymentIntentId) + 1)} :
         PayOrder(id, intent)
  \/ \E id \in 1..Len(orders), status \in GatewayStatuses : AfterExecute(id, status)
  \/ \E status \in GatewayStatuses : AfterExecuteHeld(status)
  \/ \E userId \in Buyers, offerGroup \in OfferGroups, count \in Counts :
       TokensConsumed(userId, offerGroup, count)
  \/ \E userId \in Buyers, args \in SweepArgs :
       CheckForExpiredOrders(userId, args[1], args[2])
  \/ Tick

Spec == Init /\ [][Next]_vars

\* ------------------------------------------------- several users side by side
InitUsers ==
  /\ offers = UsersCatalog
  /\ orders = <<>>
  /\ userCredits = [u \in Users |-> Undefined]
  /\ tokenTimetable = <<>>
  /\ now = 0
  /\ held = Undefined
  /\ lastOp = Op("init", "", 0, "", FALSE, <<>>, <<>>)
  /\ ops = 0
  /\ calls = <<>>

NextUsers ==
  \/ \E offerId \in DOMAIN offers, userId \in Users, quantity \in Quantities :
       CreateOrder(offerId, userId, quantity, Some(1), userId)
  \/ \E userId \in Users : CheckForExpiredOrders(userId, Undefined, Undefined)
  \/ Tick

SpecUsers == InitUsers /\ [][NextUsers]_vars

\* ------------------------------------------- orders with an explicit start date
\* a pending order of user u1 that carries a start date of its own, stored as
\* createOrder stores it together with its subscriptions
ExplicitOrder(cat, offerId, quantity, starts) ==
  [NewOrder(1, offerId, cat[offerId], "u1", quantity, computeTotal(quantity, cat[offerId]).val)
     EXCEPT !.starts = Some(starts)]

InitStarts ==
  /\ offers \in Catalogs
  /\ \E offerId \in DOMAIN offers, quantity \in Quantities, starts \in 0..MaxTime :
       /\ orders = <<ExplicitOrder(offers, offerId, quantity, starts)>>
       /\ userCredits =
            [u \in Users |->
               IF u = "u1"
               THEN Some(updateSubscriptionsOnOrderChange(
                           Undefined, offers[offerId],
                           ExplicitOrder(offers, offerId, quantity, starts), "u1"))
               ELSE Undefined]
  /\ tokenTimetable = <<>>
  /\ now = 0
  /\ held = Undefined
  /\ lastOp = Op("init", "", 0, "", FALSE, <<>>, <<>>)
  /\ ops = 0
  /\ calls = <<>>

NextStarts ==
  \/ \E id \in 1..Len(orders), status \in GatewayStatuses : AfterExecute(id, status)
  \/ \E userId \in Buyers, offerGroup \in OfferGroups, count \in Counts :
       TokensConsumed(userId, offerGroup, count)
  \/ \E userId \in Buyers, args \in SweepArgs :
       CheckForExpiredOrders(userId, args[1], args[2])
  \/ Tick

SpecStarts == InitStarts /\ [][NextStarts]_vars

\* --------------------------------------------- expiry of orders, group by group
\* the clock of the runs in which an order is consumed from and then expires
MaxSweepTime == 2

\* the numbers of tokens consumed in one call in these runs
ConsumedCounts == {1, 2}

TickLong ==
  /\ now < MaxSweepTime
  /\ now' = now + 1
  /\ lastOp' = Op("tick", "", 0, "", FALSE, <<>>, <<>>)
  /\ UNCHANGED <<offers, orders, userCredits, tokenTimetable, held, ops, calls>>

NextExpiry ==
  \/ \E offerId \in DOMAIN offers, userId \in Users :
       CreateOrder(offerId, userId, Some(2), Some(1), userId)
  \/ \E userId \in Users, count \in ConsumedCounts :
       TokensConsumed(userId, "A", count)
  \/ \E userId \in Users, offerGroup \in OfferGroups :
       ProcessExpiredOrderGroup(userId, offerGroup)
  \/ TickLong

SpecExpiry == InitUsers /\ [][NextExpiry]_vars

\* ------------------------------------------- child orders after their expiry
\* a user buys packages, lets them expire and has payments applied to the
\* orders on record, child orders included
InitChild ==
  /\ offers \in {SelfBundleCatalog, OnceBundleCatalog}
  /\ orders = <<>>
  /\ userCredits = [u \in Users |-> Undefined]
  /\ tokenTimetable = <<>>
  /\ now = 0
  /\ held = Undefined
  /\ lastOp = Op("init", "", 0, "", FALSE, <<>>, <<>>)
  /\ ops = 0
  /\ calls = <<>>

NextChild ==
  \/ \E offerId \in DOMAIN offers, userId \in Buyers, quantity \in Quantities :
       CreateOrder(offerId, userId, quantity, Some(1), userId)
  \/ \E id \in 1..Len(orders), status \in GatewayStatuses : AfterExecute(id, status)
  \/ \E userId \in Buyers, args \in SweepArgs :
       CheckForExpiredOrders(userId, args[1], args[2])
  \/ TickLong

SpecChild == InitChild /\ [][NextChild]_vars

\* ------------------------------------------------------------ expiry dates
\* the values of IOfferCycle, a value outside of it and the absent cycle
Cycles == {"once", "daily", "weekly", "bi-weekly", "monthly", "trimester", "semester",
           "yearly", "custom"}
AnyCycle == Cycles \cup {"invalidCycle", "undefined"}

\* the 1st, 30th and 31st of January, the 28th of February and the 31st of
\* December of the first year
StartDates == {0, 29, 30, 58, 364}
CycleQuantities == {Undefined, Some(0), Some(1), Some(2)}
Multipliers == {Undefined, Some(1), Some(3)}
CustomCycles == {Undefined, Some(0 - SecondsPerDay), Some(0), Some(SecondsPerDay)}

\* IExpiryDateComputeInput
ExpiryInput(starts, cycle, quantity, customCycle) ==
  [starts |-> starts, cycle |-> cycle, quantity |-> quantity, customCycle |-> customCycle]

\* a call of calculateExpiryDate about to be made
ExpiryCall(order, quantityMultiplier) ==
  [op |-> "call", user |-> "", orderId |-> 0, err |-> "", gateway |-> FALSE,
   expired |-> <<>>, warnings |-> <<>>, order |-> order,
   quantityMultiplier |-> quantityMultiplier]

\* the outcome of calculateExpiryDate
OpExpiry(order, quantityMultiplier, computed) ==
  [op |-> "calculateExpiryDate", user |-> "", orderId |-> 0, err |-> computed.err,
   gateway |-> FALSE, expired |-> <<>>, warnings |-> <<>>, order |-> order,
   quantityMultiplier |-> quantityMultiplier, computed |-> computed]

InitCycles ==
  /\ offers = PlainCatalog
  /\ orders = <<>>
  /\ userCredits = [u \in Users |-> Undefined]
  /\ tokenTimetable = <<>>
  /\ now = 0
  /\ held = Undefined
  /\ \E starts \in StartDates, cycle \in AnyCycle, quantity \in CycleQuantities,
        customCycle \in CustomCycles, quantityMultiplier \in Multipliers :
       lastOp = ExpiryCall(ExpiryInput(starts, cycle, quantity, customCycle),
                           quantityMultiplier)
  /\ ops = 0
  /\ calls = <<>>

CalculateExpiryDate ==
  /\ Step
  /\ lastOp.op = "call"
  /\ lastOp' = OpExpiry(lastOp.order, lastOp.quantityMultiplier,
                        calculateExpiryDate(lastOp.order, lastOp.quantityMultiplier))
  /\ UNCHANGED <<offers, orders, userCredits, tokenTimetable, now, held, calls>>

NextCycles == CalculateExpiryDate

SpecCycles == InitCycles /\ [][NextCycles]_vars

\* ---------------------------------------------------------- concurrent calls
\* tokensConsumed and afterExecute calls that run without locking: each call
\* advances by one storage step at a time, between the steps of the others
MaxCalls == 2

\* storage when the calls start: u1 holds a paid free order of two days (two
\* tokens of group A) and a pending priced order, u2 holds nothing
RaceStart ==
  LET free == NewOrder(1, "o2", PlainCatalog["o2"], "u1", Some(2), 0)
      paid == afterExecute(
                <<free>>,
                [u \in Users |->
                   IF u = "u1"
                   THEN Some(updateSubscriptionsOnOrderChange(
                               Undefined, PlainCatalog["o2"], free, "u1"))
                   ELSE Undefined],
                <<>>, free, "paid", PlainCatalog, 0)
      priced == [NewOrder(2, "o1", PlainCatalog["o1"], "u1", Undefined, 1)
                   EXCEPT !.paymentIntentId = Some(1)]
  IN [orders |-> Append(paid.orders, priced),
      userCredits |-> [paid.userCredits EXCEPT !["u1"] =
                         Some(updateSubscriptionsOnOrderChange(
                                @, PlainCatalog["o1"], priced, "u1"))],
      tt |-> paid.tt]

\* a call of tokensConsumed(userId, offerGroup, count) about to start
ConsumeCall(userId, offerGroup, count) ==
  [kind |-> "tokensConsumed", userId |-> userId, offerGroup |-> offerGroup,
   count |-> count, handed |-> Undefined, status |-> "", pc |-> "start",
   found |-> Undefined, updatedOrder |-> Undefined, wrote |-> <<>>, err |-> "",
   overlapped |-> FALSE, rank |-> 0]

\* a call of afterExecute(order) about to start; status is what the gateway
\* will report for the order
ExecuteCall(order, status) ==
  [kind |-> "afterExecute", userId |-> order.userId, offerGroup |-> order.offerGroup,
   count |-> 0, handed |-> Some(order), status |-> status, pc |-> "start",
   found |-> Undefined, updatedOrder |-> Undefined, wrote |-> <<>>, err |-> "",
   overlapped |-> FALSE, rank |-> 0]

RaceCalls ==
  {ConsumeCall("u1", "A", 1), ConsumeCall("u1", "A", 2), ConsumeCall("u2", "A", 1),
   ExecuteCall(RaceStart.orders[2], "paid"), ExecuteCall(RaceStart.orders[2], "refused")}

InitRace ==
  /\ offers = PlainCatalog
  /\ orders = RaceStart.orders
  /\ userCredits = RaceStart.userCredits
  /\ tokenTimetable = RaceStart.tt
  /\ now = 0
  /\ held = Undefined
  /\ lastOp = Op("init", "", 0, "", FALSE, <<>>, <<>>)
  /\ ops = 0
  /\ \E n \in 1..MaxCalls : calls \in [1..n -> RaceCalls]

InFlight(call) == call.pc \notin {"start", "done"}

\* the calls after call i moved on: a call that ends takes the next rank, and
\* calls of one user found in flight together are marked
Moved(i, call) ==
  LET ended == Cardinality({k \in DOMAIN calls : calls[k].pc = "done"})
      moved == [calls EXCEPT ![i] =
                  IF call.pc = "done" THEN [call EXCEPT !.rank = ended + 1] ELSE call]
  IN [k \in DOMAIN moved |->
        [moved[k] EXCEPT !.overlapped =
           @ \/ (/\ InFlight(moved[k])
                 /\ \E j \in DOMAIN moved \ {k} :
                      moved[j].userId = moved[k].userId /\ InFlight(moved[j]))]]

\* faulty variant: a line equal to a stored one is not stored again
CreateEntryDistinct(ttDb, entry) ==
  IF \E k \in 1..Len(ttDb) : ttDb[k] = entry THEN ttDb ELSE Append(ttDb, entry)

\* tokenTimetableDao.create
CreateEntry(ttDb, entry) == Append(ttDb, entry)

\* tokensConsumed, first step: the ledger line is created
ConsumeCreate(i) ==
  LET call == calls[i]
      entry == TimetableEntry(call.userId, call.offerGroup, 0 - call.count, now)
  IN /\ call.kind = "tokensConsumed" /\ call.pc = "start"
     /\ tokenTimetable' = CreateEntry(tokenTimetable, entry)
     /\ calls' = Moved(i, [call EXCEPT !.pc = "find", !.wrote = <<entry>>])
     /\ UNCHANGED <<offers, orders, userCredits, now, held, lastOp, ops>>

\* tokensConsumed, second step: getUserCredits
ConsumeFind(i) ==
  LET call == calls[i]
  IN /\ call.kind = "tokensConsumed" /\ call.pc = "find"
     /\ calls' = Moved(i, IF IsSet(userCredits[call.userId])
                          THEN [call EXCEPT !.pc = "save", !.found = userCredits[call.userId]]
                          ELSE [call EXCEPT !.pc = "done", !.err = "PaymentError"])
     /\ UNCHANGED <<offers, orders, userCredits, tokenTimetable, now, held, lastOp, ops>>

\* faulty variant: the balance of the loaded aggregate is left as it is
ConsumedKeep(found, offerGroup, count, t) == found

\* the loaded aggregate after tokensConsumed lowered the balance in memory
Consumed(found, offerGroup, count, t) ==
  [found EXCEPT !.offers = tokensConsumed(@, offerGroup, count, t)]

\* tokensConsumed, last step: the aggregate changed in memory is saved
ConsumeSave(i) ==
  LET call == calls[i]
  IN /\ call.kind = "tokensConsumed" /\ call.pc = "save"
     /\ userCredits' = [userCredits EXCEPT ![call.userId] =
                          Some(Consumed(call.found[1], call.offerGroup, call.count, now))]
     /\ calls' = Moved(i, [call EXCEPT !.pc = "done"])
     /\ UNCHANGED <<offers, orders, tokenTimetable, now, held, lastOp, ops>>

\* afterExecute, first step: the duplicate-attempt guard and getUserCredits
ExecuteFind(i) ==
  LET call == calls[i]
      order == call.handed[1]
  IN /\ call.kind = "afterExecute" /\ call.pc = "start"
     /\ calls' = Moved(i, IF AlreadyPaid(order)
                          THEN [call EXCEPT !.pc = "done", !.err = "DuplicateAttemptError"]
                          ELSE IF ~IsSet(userCredits[call.userId])
                          THEN [call EXCEPT !.pc = "done", !.err = "PaymentError"]
                          ELSE [call EXCEPT !.pc = "apply", !.found = userCredits[call.userId]])
     /\ UNCHANGED <<offers, orders, userCredits, tokenTimetable, now, held, lastOp, ops>>

\* afterExecute, second step: the gateway's answer and updateCredits, which
\* reads the orders and writes the ledger lines and the child orders
ExecuteApply(i) ==
  LET call == calls[i]
      order == call.handed[1]
      r == updateCredits(orders, tokenTimetable, call.found[1],
                         IF order.total > 0 THEN afterPaymentExecuted(order, call.status)
                         ELSE afterFreeOrderExecuted(order),
                         offers, now)
  IN /\ call.kind = "afterExecute" /\ call.pc = "apply"
     /\ Len(r.st.tt) <= Len(RaceStart.tt) + 2 * MaxCalls
     /\ orders' = r.st.orders
     /\ tokenTimetable' = r.st.tt
     /\ calls' = Moved(i, IF r.st.err # ""
                          THEN [call EXCEPT !.pc = "done", !.err = r.st.err,
                                  !.wrote = SubSeq(r.st.tt, Len(tokenTimetable) + 1, Len(r.st.tt))]
                          ELSE [call EXCEPT !.pc = "saveOrder",
                                  !.found = Some(r.userCredits),
                                  !.updatedOrder = Some(r.order),
                                  !.wrote = SubSeq(r.st.tt, Len(tokenTimetable) + 1, Len(r.st.tt))])
     /\ UNCHANGED <<offers, userCredits, now, held, lastOp, ops>>

\* afterExecute, third step: updatedOrder.save()
ExecuteSaveOrder(i) ==
  LET call == calls[i]
      updatedOrder == call.updatedOrder[1]
  IN /\ call.kind = "afterExecute" /\ call.pc = "saveOrder"
     /\ orders' = [orders EXCEPT ![updatedOrder.id] = SaveOrder(@, updatedOrder)]
     /\ calls' = Moved(i, [call EXCEPT !.pc = "saveCredits"])
     /\ UNCHANGED <<offers, userCredits, tokenTimetable, now, held, lastOp, ops>>

\* afterExecute, last step: userCredits.save()
ExecuteSaveCredits(i) ==
  LET call == calls[i]
  IN /\ call.kind = "afterExecute" /\ call.pc = "saveCredits"
     /\ userCredits' = [userCredits EXCEPT ![call.userId] = call.found]
     /\ calls' = Moved(i, [call EXCEPT !.pc = "done"])
     /\ UNCHANGED <<offers, orders, tokenTimetable, now, held, lastOp, ops>>

NextRace ==
  \/ \E i \in DOMAIN calls : ConsumeCreate(i)
  \/ \E i \in DOMAIN calls : ConsumeFind(i)
  \/ \E i \in DOMAIN calls : ConsumeSave(i)
  \/ \E i \in DOMAIN calls : ExecuteFind(i)
  \/ \E i \in DOMAIN calls : ExecuteApply(i)
  \/ \E i \in DOMAIN calls : ExecuteSaveOrder(i)
  \/ \E i \in DOMAIN calls : ExecuteSaveCredits(i)

SpecRace == InitRace /\ [][NextRace]_vars

\* ------------------------------------------------- orders of package offers
\* a priced package of group B with three items, the second of which names an
\* offer that is not stored
DanglingCatalog ==
  [id \in {"o1", "o12"} |->
     IF id = "o1" THEN Offer("A", "daily", Undefined, Some(2), 1, FALSE, <<>>)
     ELSE Offer("B", "daily", Undefined, Some(1), 2, FALSE,
                <<Item("A", "o1", Some(2)), Item("B", "o13", Some(2)),
                  Item("A", "o1", Undefined)>>)]

\* BaseService.createOrder: the error thrown, the order returned, and the
\* orders and aggregates stored
createOrder(cat, ordersDb, ucDb, offerId, userId, quantity, newId) ==
  IF offerId \notin DOMAIN cat
  THEN [err |-> "Error", returned |-> Undefined, orders |-> ordersDb, userCredits |-> ucDb]
  ELSE LET offer == cat[offerId]
           total == computeTotal(quantity, offer)
           stored == NewOrder(Len(ordersDb) + 1, offerId, offer, userId, quantity, total.val)
           order == [stored EXCEPT !.combinedItems = prefillCombinedOrders(cat, offer.combinedItems)]
       IN IF total.err # ""
          THEN [err |-> total.err, returned |-> Undefined, orders |-> ordersDb,
                userCredits |-> ucDb]
          ELSE [err |-> "", returned |-> Some(order), orders |-> Append(ordersDb, stored),
                userCredits |-> [ucDb EXCEPT ![userId] =
                                   Some(updateSubscriptionsOnOrderChange(@, offer, order, newId))]]

\* the outcome of BaseService.createOrder
OpCreated(u, offerId, quantity, created) ==
  [op |-> "BaseService.createOrder", user |-> u,
   orderId |-> IF created.err = "" THEN created.returned[1].id ELSE 0,
   err |-> created.err, gateway |-> FALSE, expired |-> <<>>, warnings |-> <<>>,
   offerId |-> offerId, quantity |-> quantity, returned |-> created.returned]

BaseCreateOrder(offerId, userId, quantity, newId) ==
  LET created == createOrder(offers, orders, userCredits, offerId, userId, quantity, newId)
  IN /\ Step
     /\ Len(orders) < MaxOrders
     /\ IsSet(userCredits[userId]) => newId = userCredits[userId][1].id
     /\ orders' = created.orders
     /\ userCredits' = created.userCredits
     /\ held' = IF created.err = "" THEN created.returned ELSE held
     /\ lastOp' = OpCreated(userId, offerId, quantity, created)
     /\ UNCHANGED <<offers, tokenTimetable, now, calls>>

\* the identifiers createOrder is called with: the stored offers and one that
\* is not stored
OfferIds == {"o1", "o2", "o3", "o12", "o13"}

InitPrefill ==
  /\ offers \in {PlainCatalog, BundleCatalog, DanglingCatalog}
  /\ orders = <<>>
  /\ userCredits = [u \in Users |-> Undefined]
  /\ tokenTimetable = <<>>
  /\ now = 0
  /\ held = Undefined
  /\ lastOp = Op("init", "", 0, "", FALSE, <<>>, <<>>)
  /\ ops = 0
  /\ calls = <<>>

NextPrefill ==
  \E offerId \in OfferIds, userId \in Users, quantity \in Quantities :
    BaseCreateOrder(offerId, userId, quantity, userId)

SpecPrefill == InitPrefill /\ [][NextPrefill]_vars

\* ------------------------------------------------- offers held in memory
\* a priced package of group B whose item is appended after the running
\* expiry of group A
AppendBundleCatalog ==
  [id \in {"o2", "o14"} |->
     IF id = "o2" THEN Offer("A", "daily", Undefined, Some(1), 0, TRUE, <<>>)
     ELSE Offer("B", "daily", Undefined, Some(1), 2, FALSE, <<Item("A", "o2", Some(2))>>)]

\* the entry of an offer's combinedItems after updateNestedItemDateAndTokens
\* used it as its compute input
WrittenItem(cat, orderItemSpec, userId) ==
  LET offer == cat[orderItemSpec.offerId]
  IN [orderItemSpec EXCEPT
        !.tokenCount = IF OrZero(@) = 0 /\ OrZero(offer.tokenCount) # 0
                       THEN offer.tokenCount ELSE @,
        !.cycle = IF offer.appendDate THEN Some(OrElse(@, offer.cycle)) ELSE @,
        !.userId = IF offer.appendDate THEN Some(userId) ELSE @]

\* the offers after the items of the order's offer were gone through
WrittenThrough(cat, order) ==
  [cat EXCEPT ![order.offerId].combinedItems =
     [j \in 1..Len(cat[order.offerId].combinedItems) |->
        WrittenItem(cat, cat[order.offerId].combinedItems[j], order.userId)]]

\* afterExecute with an offerDao that hands out either the offer objects it
\* keeps (shared) or copies of them
AfterExecuteShared(id, status, shared) ==
  LET r == afterExecute(orders, userCredits, tokenTimetable, orders[id], status, offers, now)
  IN /\ Step
     /\ RoomFor(orders[id])
     /\ Persist(r, "afterExecute", orders[id])
     /\ offers' = IF shared /\ r.err = "" /\ r.orders[id].status = "paid"
                  THEN WrittenThrough(offers, orders[id]) ELSE offers
     /\ UNCHANGED <<now, held, calls>>

InitShared ==
  /\ offers \in {BundleCatalog, AppendBundleCatalog}
  /\ orders = <<>>
  /\ userCredits = [u \in Users |-> Undefined]
  /\ tokenTimetable = <<>>
  /\ now = 0
  /\ held = Undefined
  /\ lastOp = Op("init", "", 0, "", FALSE, <<>>, <<>>)
  /\ ops = 0
  /\ calls = <<>>

NextShared ==
  \/ \E offerId \in DOMAIN offers, userId \in Buyers, quantity \in Quantities :
       CreateOrder(offerId, userId, quantity, Some(1), userId)
  \/ \E id \in 1..Len(orders), status \in GatewayStatuses, shared \in BOOLEAN :
       AfterExecuteShared(id, status, shared)
  \/ \E userId \in Buyers, offerGroup \in OfferGroups, count \in Counts :
       TokensConsumed(userId, offerGroup, count)
  \/ \E userId \in Buyers, args \in SweepArgs :
       CheckForExpiredOrders(userId, args[1], args[2])
  \/ Tick

SpecShared == InitShared /\ [][NextShared]_vars

\* ------------------------------------------------------- dates of packages
\* a free package of group A whose first item is appended after the running
\* expiry of the package's own group and whose second item is not appended
MixedBundleCatalog ==
  [id \in {"o2", "o5", "o15"} |->
     IF id = "o2" THEN Offer("A", "daily", Undefined, Some(1), 0, TRUE, <<>>)
     ELSE IF id = "o5" THEN Offer("B", "daily", Undefined, Some(1), 0, FALSE, <<>>)
     ELSE Offer("A", "daily", Undefined, Some(1), 0, FALSE,
                <<Item("A", "o2", Some(2)), Item("B", "o5", Undefined)>>)]

InitBundles ==
  /\ offers \in {BundleCatalog, SelfBundleCatalog, AppendBundleCatalog, MixedBundleCatalog}
  /\ orders = <<>>
  /\ userCredits = [u \in Users |-> Undefined]
  /\ tokenTimetable = <<>>
  /\ now = 0
  /\ held = Undefined
  /\ lastOp = Op("init", "", 0, "", FALSE, <<>>, <<>>)
  /\ ops = 0
  /\ calls = <<>>

NextBundles ==
  \/ \E offerId \in DOMAIN offers, userId \in Buyers, quantity \in Quantities :
       CreateOrder(offerId, userId, quantity, Some(1), userId)
  \/ \E id \in 1..Len(orders), status \in GatewayStatuses : AfterExecute(id, status)
  \/ Tick

SpecBundles == InitBundles /\ [][NextBundles]_vars

\* ------------------------------------------------ payments that do not go through
\* the statuses paymentClient.afterPaymentExecuted can report
ReportedStatuses == {"paid", "refused", "pending", "error"}

InitGateway ==
  /\ offers \in {PlainCatalog, BundleCatalog}
  /\ orders = <<>>
  /\ userCredits = [u \in Users |-> Undefined]
  /\ tokenTimetable = <<>>
  /\ now = 0
  /\ held = Undefined
  /\ lastOp = Op("init", "", 0, "", FALSE, <<>>, <<>>)
  /\ ops = 0
  /\ calls = <<>>

NextGateway ==
  \/ \E offerId \in DOMAIN offers, userId \in Buyers, quantity \in Quantities :
       CreateOrder(offerId, userId, quantity, Some(1), userId)
  \/ \E id \in 1..Len(orders), status \in ReportedStatuses : AfterExecute(id, status)
  \/ \E status \in ReportedStatuses : AfterExecuteHeld(status)
  \/ Tick

SpecGateway == InitGateway /\ [][NextGateway]_vars

\* ------------------------------------------------------- quantities of an order
\* the quantities createOrder is called with: omitted, zero, negative, positive
AnyQuantities == {Undefined, Some(0), Some(-1), Some(2)}

InitQuantities ==
  /\ offers \in {PlainCatalog, BundleCatalog}
  /\ orders = <<>>
  /\ userCredits = [u \in Users |-> Undefined]
  /\ tokenTimetable = <<>>
  /\ now = 0
  /\ held = Undefined
  /\ lastOp = Op("init", "", 0, "", FALSE, <<>>, <<>>)
  /\ ops = 0
  /\ calls = <<>>

NextQuantities ==
  \/ \E offerId \in DOMAIN offers, userId \in Buyers, quantity \in AnyQuantities :
       CreateOrder(offerId, userId, quantity, Some(1), userId)
  \/ \E id \in 1..Len(orders), status \in GatewayStatuses : AfterExecute(id, status)
  \/ Tick

SpecQuantities == InitQuantities /\ [][NextQuantities]_vars

\* ------------------------------------------------ purchases and consumptions
InitLedger ==
  /\ offers \in {PlainCatalog, BundleCatalog}
  /\ orders = <<>>
  /\ userCredits = [u \in Users |-> Undefined]
  /\ tokenTimetable = <<>>
  /\ now = 0
  /\ held = Undefined
  /\ lastOp = Op("init", "", 0, "", FALSE, <<>>, <<>>)
  /\ ops = 0
  /\ calls = <<>>

\* the operations of one user run one at a time, without any expiry sweep
NextLedger ==
  \/ \E offerId \in DOMAIN offers, userId \in Buyers, quantity \in Quantities :
       CreateOrder(offerId, userId, quantity, Some(1), userId)
  \/ \E id \in 1..Len(orders), status \in GatewayStatuses : AfterExecute(id, status)
  \/ \E userId \in Buyers, offerGroup \in OfferGroups, count \in Counts :
       TokensConsumed(userId, offerGroup, count)
  \/ Tick

SpecLedger == InitLedger /\ [][NextLedger]_vars

\* ------------------------------------------------- a sweep that keeps running
\* the days of the longer of the two cycles on offer
LongCycleDays == 2

\* two free offers of one offerGroup, neither appended: a long custom cycle
\* and a cycle of one day
TwoCycleCatalog ==
  [id \in {"o16", "o17"} |->
     IF id = "o16"
     THEN Offer("A", "custom", Some(LongCycleDays * SecondsPerDay), Some(1), 0, FALSE, <<>>)
     ELSE Offer("A", "daily", Undefined, Some(1), 0, FALSE, <<>>)]

InitPeriodic ==
  /\ offers = TwoCycleCatalog
  /\ orders = <<>>
  /\ userCredits = [u \in Users |-> Undefined]
  /\ tokenTimetable = <<>>
  /\ now = 0
  /\ held = Undefined
  /\ lastOp = Op("init", "", 0, "", FALSE, <<>>, <<>>)
  /\ ops = 0
  /\ calls = <<>>

\* the sweep a scheduler runs for the user again and again, outside of the
\* budget of the other operations
PeriodicSweep(userId) ==
  /\ Sweep(userId, Undefined, Undefined)
  /\ UNCHANGED ops

\* the clock runs on until every order bought by MaxSweepTime is past its expiry
TickPast ==
  /\ now < MaxSweepTime + LongCycleDays
  /\ now' = now + 1
  /\ lastOp' = Op("tick", "", 0, "", FALSE, <<>>, <<>>)
  /\ UNCHANGED <<offers, orders, userCredits, tokenTimetable, held, ops, calls>>

NextPeriodic ==
  \/ \E offerId \in DOMAIN offers, userId \in Buyers :
       now <= MaxSweepTime /\ CreateOrder(offerId, userId, Undefined, Some(1), userId)
  \/ \E userId \in Buyers, count \in Counts : TokensConsumed(userId, "A", count)
  \/ \E userId \in Buyers : PeriodicSweep(userId)
  \/ TickPast

\* time passes and the sweep of every buyer keeps being invoked
SpecPeriodic ==
  /\ InitPeriodic
  /\ [][NextPeriodic]_vars
  /\ WF_vars(TickPast)
  /\ \A userId \in Buyers : WF_vars(PeriodicSweep(userId))

\* ------------------------------------------------ payment applications that fail
\* a priced package of group B whose second item names an offer that is not stored
LateDanglingCatalog ==
  [id \in {"o1", "o18"} |->
     IF id = "o1" THEN Offer("A", "daily", Undefined, Some(2), 1, FALSE, <<>>)
     ELSE Offer("B", "daily", Undefined, Some(1), 2, FALSE,
                <<Item("A", "o1", Some(2)), Item("B", "o13", Undefined)>>)]

InitFailing ==
  /\ offers \in {BundleCatalog, LateDanglingCatalog}
  /\ orders = <<>>
  /\ userCredits = [u \in Users |-> Undefined]
  /\ tokenTimetable = <<>>
  /\ now = 0
  /\ held = Undefined
  /\ lastOp = Op("init", "", 0, "", FALSE, <<>>, <<>>)
  /\ ops = 0
  /\ calls = <<>>

NextFailing ==
  \/ \E offerId \in DOMAIN offers, userId \in Buyers, quantity \in Quantities :
       CreateOrder(offerId, userId, quantity, Some(1), userId)
  \/ \E id \in 1..Len(orders), status \in GatewayStatuses : AfterExecute(id, status)
  \/ \E status \in GatewayStatuses : AfterExecuteHeld(status)
  \/ Tick

SpecFailing == InitFailing /\ [][NextFailing]_vars

\* ------------------------------------------------------------ merging offers
\* the position in the Map of the entry with that overridingKey, 0 when absent
MapIndex(unlockedOffersMap, overridingKey) ==
  FirstIndex(unlockedOffersMap, LAMBDA o : o.overridingKey = overridingKey)

\* faulty variant: among equal weights the last offer seen is kept
MapSetLastSeen(unlockedOffersMap, unlockedOffer) ==
  LET i == MapIndex(unlockedOffersMap, unlockedOffer.overridingKey)
  IN IF i = 0 THEN Append(unlockedOffersMap, unlockedOffer)
     ELSE IF unlockedOffer.weight >= unlockedOffersMap[i].weight
     THEN [unlockedOffersMap EXCEPT ![i] = unlockedOffer]
     ELSE unlockedOffersMap

\* one turn of the loop that fills unlockedOffersMap: a Map keeps its keys in
\* the order of their first insertion, and (weight || 0) is the weight itself
MapSet(unlockedOffersMap, unlockedOffer) ==
  LET i == MapIndex(unlockedOffersMap, unlockedOffer.overridingKey)
  IN IF i = 0 THEN Append(unlockedOffersMap, unlockedOffer)
     ELSE IF unlockedOffer.weight
               > (IF unlockedOffersMap[i].weight = 0 THEN 0 ELSE unlockedOffersMap[i].weight)
     THEN [unlockedOffersMap EXCEPT ![i] = unlockedOffer]
     ELSE unlockedOffersMap

\* unlockedOffersMap after the first n unlocked offers
RECURSIVE UnlockedOffersMap(_, _)
UnlockedOffersMap(unlockedOffers, n) ==
  IF n = 0 THEN <<>>
  ELSE MapSet(UnlockedOffersMap(unlockedOffers, n - 1), unlockedOffers[n])

mergeOffers(regularOffers, unlockedOffers) ==
  LET unlockedOffersMap == UnlockedOffersMap(unlockedOffers, Len(unlockedOffers))
  IN SelectSeq(regularOffers,
               LAMBDA regularOffer : MapIndex(unlockedOffersMap, regularOffer.overridingKey) = 0)
       \o unlockedOffersMap

\* the lists of offers mergeOffers is given
MaxRegular == 2
MaxDependent == 3
MergeKeys == {"K", "L"}
MergeWeights == {-1, 0, 1}

\* the offers of a list told apart by an identifier of their own
WithIds(list, kind) ==
  [i \in 1..Len(list) |->
     [id |-> i, kind |-> kind,
      overridingKey |-> list[i].overridingKey, weight |-> list[i].weight]]

RegularLists ==
  UNION {{WithIds(list, "regular") :
            list \in [1..n -> [overridingKey : MergeKeys, weight : {0}]]} : n \in 0..MaxRegular}

DependentLists ==
  UNION {{WithIds(list, "dependent") :
            list \in [1..n -> [overridingKey : MergeKeys, weight : MergeWeights]]} :
           n \in 0..MaxDependent}

\* a call of mergeOffers with its two arguments, not answered yet
MergeCall(regularOffers, unlockedOffers) ==
  [op |-> "call", user |-> "", orderId |-> 0, err |-> "", gateway |-> FALSE,
   expired |-> <<>>, warnings |-> <<>>,
   regular |-> regularOffers, dependent |-> unlockedOffers]

\* the outcome of mergeOffers
OpMerged(regularOffers, unlockedOffers, returned) ==
  [op |-> "mergeOffers", user |-> "", orderId |-> 0, err |-> "", gateway |-> FALSE,
   expired |-> <<>>, warnings |-> <<>>,
   regular |-> regularOffers, dependent |-> unlockedOffers, returned |-> returned]

InitMerge ==
  /\ offers = UsersCatalog
  /\ orders = <<>>
  /\ userCredits = [u \in Users |-> Undefined]
  /\ tokenTimetable = <<>>
  /\ now = 0
  /\ held = Undefined
  /\ \E regularOffers \in RegularLists, unlockedOffers \in DependentLists :
       lastOp = MergeCall(regularOffers, unlockedOffers)
  /\ ops = 0
  /\ calls = <<>>

MergeOffers ==
  /\ lastOp.op = "call"
  /\ Step
  /\ lastOp' = OpMerged(lastOp.regular, lastOp.dependent,
                        mergeOffers(lastOp.regular, lastOp.dependent))
  /\ UNCHANGED <<offers, orders, userCredits, tokenTimetable, now, held, calls>>

NextMerge == MergeOffers

SpecMerge == InitMerge /\ [][NextMerge]_vars

\* ----------------------------------------------------------- resolving offers
\* an offer with the fields that decide who sees it
ListedOffer(g, pr, quantityLimit, unlockedBy, tags, overridingKey, weight) ==
  [offerGroup |-> g, cycle |-> "daily", customCycle |-> Undefined, tokenCount |-> Some(1),
   price |-> pr, quantityLimit |-> quantityLimit, appendDate |-> FALSE, combinedItems |-> <<>>,
   unlockedBy |-> unlockedBy, tags |-> tags, overridingKey |-> overridingKey,
   weight |-> weight]

\* a free tagged offer of group A, a priced untagged one of group B sold one
\* at a time, a tagged offer unlocked by A that overrides the first and is
\* sold by two at most, an untagged one unlocked by B
ListedCatalog ==
  [id \in {"o6", "o7", "o8", "o9"} |->
     IF id = "o6" THEN ListedOffer("A", 0, Undefined, {}, {"t"}, "K", 0)
     ELSE IF id = "o7" THEN ListedOffer("B", 1, Some(1), {}, {}, "L", 0)
     ELSE IF id = "o8" THEN ListedOffer("A", 0, Some(2), {"A"}, {"t"}, "K", 1)
     ELSE ListedOffer("B", 0, Undefined, {"B"}, {}, "M", 0)]

\* the order in which the offer collection answers a query
ListedIds == <<"o6", "o7", "o8", "o9">>

\* an offer as a query returns it
OfferView(cat, id) ==
  [id |-> id, unlockedBy |-> cat[id].unlockedBy, tags |-> cat[id].tags,
   overridingKey |-> cat[id].overridingKey, weight |-> cat[id].weight]

OfferViews(cat, ids) == [i \in 1..Len(ids) |-> OfferView(cat, ids[i])]

\* offerDao.find({ unlockedBy: { $size: 0 } })
FindNotUnlocked(cat) ==
  OfferViews(cat, SelectSeq(ListedIds, LAMBDA id : cat[id].unlockedBy = {}))

\* IFindOffersParams
FindOffersParams(allTags, tags, unlockedBy) ==
  [allTags |-> allTags, tags |-> tags, unlockedBy |-> unlockedBy]

\* offerDao.loadOffers(params): the offers that pass every filter the
\* parameters carry, by unlockedBy membership and by tags (all of them when
\* allTags is set)
DaoLoadOffers(cat, params) ==
  OfferViews(cat,
    SelectSeq(ListedIds,
      LAMBDA id :
        /\ IsSet(params.unlockedBy) => cat[id].unlockedBy \cap params.unlockedBy[1] # {}
        /\ IsSet(params.tags)
             => IF params.allTags THEN params.tags[1] \subseteq cat[id].tags
                ELSE cat[id].tags \cap params.tags[1] # {}))

getRegularOffers(cat, envTags) ==
  IF ~IsSet(envTags) THEN FindNotUnlocked(cat)
  ELSE DaoLoadOffers(cat, FindOffersParams(TRUE, envTags, Undefined))

\* the offerGroups of the subscriptions with status paid
getActiveSubscriptions(uc) ==
  {uc.subscriptions[i].offerGroup :
     i \in {j \in 1..Len(uc.subscriptions) : uc.subscriptions[j].status = "paid"}}

\* loadOffers: a user without aggregate makes getActiveSubscriptions fail on
\* the missing subscriptions list
loadOffers(cat, ucDb, userId, envTags) ==
  IF ~IsSet(userId) THEN Ok(getRegularOffers(cat, envTags))
  ELSE IF ~IsSet(ucDb[userId[1]]) THEN Throw("TypeError")
  ELSE LET purchasedOfferGroups == getActiveSubscriptions(ucDb[userId[1]][1])
           dependentOffers == DaoLoadOffers(cat, FindOffersParams(FALSE, Undefined,
                                                                  Some(purchasedOfferGroups)))
           regularOffers == getRegularOffers(cat, envTags)
       IN Ok(mergeOffers(regularOffers, dependentOffers))

\* the outcome of loadOffers
OpListed(userId, envTags, r) ==
  [op |-> "loadOffers", user |-> userId, orderId |-> 0, err |-> r.err, gateway |-> FALSE,
   expired |-> <<>>, warnings |-> <<>>, envTags |-> envTags,
   returned |-> IF r.err = "" THEN r.val ELSE <<>>]

LoadOffers(userId, envTags) ==
  /\ Step
  /\ lastOp' = OpListed(userId, envTags, loadOffers(offers, userCredits, userId, envTags))
  /\ UNCHANGED <<offers, orders, userCredits, tokenTimetable, now, held, calls>>

EnvTags == {Undefined, Some({"t"})}

InitOffers ==
  /\ offers = ListedCatalog
  /\ orders = <<>>
  /\ userCredits = [u \in Users |-> Undefined]
  /\ tokenTimetable = <<>>
  /\ now = 0
  /\ held = Undefined
  /\ lastOp = Op("init", "", 0, "", FALSE, <<>>, <<>>)
  /\ ops = 0
  /\ calls = <<>>

NextOffers ==
  \/ \E offerId \in DOMAIN offers, userId \in Users, quantity \in Quantities :
       CreateOrder(offerId, userId, quantity, Some(1), userId)
  \/ \E id \in 1..Len(orders), status \in GatewayStatuses : AfterExecute(id, status)
  \/ \E userId \in {Undefined} \cup {Some(u) : u \in Users}, envTags \in EnvTags :
       LoadOffers(userId, envTags)

SpecOffers == InitOffers /\ [][NextOffers]_vars

\* ================================================================ properties
\* the balance of an offerGroup on a balance sheet, 0 when the group is absent
Balance(ucOffers, g) ==
  IF GroupIndex(ucOffers, g) = 0 THEN 0 ELSE ucOffers[GroupIndex(ucOffers, g)].tokens

SheetOf(ucDb, u) == IF IsSet(ucDb[u]) THEN ucDb[u][1].offers ELSE <<>>

\* the positive ledger lines of a user and offerGroup among the lines from index k on
GrantedSince(ttDb, k, u, g) ==
  SeqSum([i \in 1..(Len(ttDb) - k) |->
            IF /\ ttDb[k + i].userId = u
               /\ ttDb[k + i].offerGroup = g
               /\ ttDb[k + i].tokens > 0
            THEN ttDb[k + i].tokens ELSE 0])

\* the step is a payment application (afterExecute, also the one createOrder
\* runs for a free order) that ended without error
IsApplication(op) ==
  /\ op.err = ""
  /\ op.orderId # 0
  /\ \/ op.op \in {"afterExecute", "afterExecuteHeld"}
     \/ op.op = "createOrder" /\ ~op.gateway

\* C1: balance application adds the granted tokens t > 0 to the existing
\* ActivatedOffer of the offerGroup whatever its balance b (0 and negative
\* included) and overwrites its starts/expires with the fresh values; when
\* the group is absent exactly one ActivatedOffer with balance t is inserted.
C1_BalanceApplication ==
  \A u \in Users, g \in OfferGroups, t \in 1..2 :
    LET before == SheetOf(userCredits, u)
        fresh == ActivatedOffer(g, Some(now), Some(now + 1), t)
        after == appendOrPushActiveOffer(before, fresh)
        i == GroupIndex(before, g)
    IN IF i # 0
       THEN /\ Len(after) = Len(before)
            /\ after[i].tokens = before[i].tokens + t
            /\ after[i].starts = fresh.starts
            /\ after[i].expires = fresh.expires
       ELSE /\ Len(after) = Len(before) + 1
            /\ Cardinality({j \in 1..Len(after) : after[j].offerGroup = g}) = 1
            /\ Balance(after, g) = t

\* C2: the ledger update is idempotent per order: once an order's payment has
\* been applied (its stored starts is set), a later afterExecute on any copy
\* of it adds no tokens to the balance sheet, writes no ledger line and leaves
\* the stored tokenCount alone.
C2_AppliedAtMostOnce ==
  [][(/\ IsApplication(lastOp')
      /\ lastOp'.op # "createOrder"
      /\ orders'[lastOp'.orderId].status = "paid"
      /\ IsSet(orders[lastOp'.orderId].starts))
     => /\ tokenTimetable' = tokenTimetable
        /\ \A g \in OfferGroups :
             Balance(SheetOf(userCredits', lastOp'.user), g)
               = Balance(SheetOf(userCredits, lastOp'.user), g)
        /\ orders'[lastOp'.orderId].tokenCount = orders[lastOp'.orderId].tokenCount]_vars

\* the order afterExecute was handed in the step
HandedPaid(op) ==
  \/ op.op = "afterExecute" /\ orders[op.orderId].status = "paid"
  \/ op.op = "afterExecuteHeld" /\ held[1].status = "paid"

\* C3: afterExecute handed an order whose status is already paid fails with
\* DuplicateAttemptError without consulting the gateway and leaves the orders,
\* the UserCredits and the TokenTimetable as they were.
C3_DuplicateAttemptChangesNothing ==
  [][HandedPaid(lastOp')
     => /\ lastOp'.err = "DuplicateAttemptError"
        /\ ~lastOp'.gateway
        /\ orders' = orders
        /\ userCredits' = userCredits
        /\ tokenTimetable' = tokenTimetable]_vars

C3_Witness ==
  /\ lastOp.op \in {"afterExecute", "afterExecuteHeld"}
  /\ lastOp.err = "DuplicateAttemptError"
  /\ orders[lastOp.orderId].status \in {"paid", "expired"}

\* C4: the stored status of an order only changes pending -> paid,
\* pending -> refused, or paid -> expired (the last by the expiry sweep only).
C4_StatusLifecycle ==
  [][\A id \in 1..Len(orders) :
       orders'[id].status # orders[id].status
       => \/ orders[id].status = "pending" /\ orders'[id].status \in {"paid", "refused"}
          \/ /\ orders[id].status = "paid"
             /\ orders'[id].status = "expired"
             /\ lastOp'.op = "checkForExpiredOrders"]_vars

\* C5: once an order is stored as paid no later operation changes any of its
\* fields but status and history.
C5_PaidOrdersArchival ==
  [][\A id \in 1..Len(orders) :
       orders[id].status = "paid"
       => orders'[id] = [orders[id] EXCEPT !.status = orders'[id].status,
                                           !.history = orders'[id].history]]_vars

\* C6: every balance sheet holds at most one ActivatedOffer per offerGroup,
\* also after bundles whose items target the root's offerGroup or the same
\* offerGroup more than once.
C6_OneActivatedOfferPerGroup ==
  \A u \in Users, g \in OfferGroups :
    Cardinality({j \in 1..Len(SheetOf(userCredits, u)) :
                   SheetOf(userCredits, u)[j].offerGroup = g}) <= 1

\* a bundle was applied whose items target one offerGroup twice, or the
\* offerGroup of the bundle itself
C6_Witness ==
  /\ IsApplication(lastOp)
  /\ orders[lastOp.orderId].status = "paid"
  /\ LET items == offers[orders[lastOp.orderId].offerId].combinedItems
     IN \/ /\ Len(items) = 2
           /\ items[1].offerGroup = items[2].offerGroup
        \/ /\ Len(items) = 1
           /\ items[1].offerGroup = orders[lastOp.orderId].offerGroup
  /\ GroupIndex(SheetOf(userCredits, lastOp.user), "A") # 0

\* C7: every positive grant of a successful payment application is mirrored
\* in the ledger with the same magnitude: for every offerGroup the positive
\* ledger lines appended by the call add up to the amount by which the call
\* raised the balance of that group.
C7_GrantsMirroredInLedger ==
  [][(/\ IsApplication(lastOp')
      /\ orders'[lastOp'.orderId].status = "paid")
     => \A g \in OfferGroups :
          GrantedSince(tokenTimetable', Len(tokenTimetable), lastOp'.user, g)
            = Balance(SheetOf(userCredits', lastOp'.user), g)
                - Balance(SheetOf(userCredits, lastOp'.user), g)]_vars

\* the grant of the k-th item of a bundle bought with quantity rootQuantity:
\* sub-offer tokenCount x item quantity x root quantity
ItemGrant(cat, items, k, rootQuantity) ==
  OrZero(cat[items[k].offerId].tokenCount) * OrOne(items[k].quantity) * rootQuantity

\* C8: paying a root order of quantity Q for a bundle creates one child order
\* per item (paid, parentId the root's id, total 0, tokenCount c_i * q_i * Q),
\* appends one ledger line of +c_i * q_i * Q for the item's offerGroup, and
\* raises the balance of each offerGroup by the grants of its items (plus the
\* root's own tokens in the root's offerGroup).
C8_BundleExpansion ==
  [][(/\ IsApplication(lastOp')
      /\ orders'[lastOp'.orderId].status = "paid"
      /\ offers[orders'[lastOp'.orderId].offerId].combinedItems # <<>>)
     => LET root == orders'[lastOp'.orderId]
            items == offers[root.offerId].combinedItems
            n == Len(items)
            Q == OrOne(root.quantity)
            first == Len(orders') - n
        IN /\ first = Len(orders) + (IF lastOp'.op = "createOrder" THEN 1 ELSE 0)
           /\ \A k \in 1..n :
                /\ orders'[first + k].status = "paid"
                /\ orders'[first + k].parentId = Some(root.id)
                /\ orders'[first + k].total = 0
                /\ orders'[first + k].offerGroup = items[k].offerGroup
                /\ orders'[first + k].tokenCount = Some(ItemGrant(offers, items, k, Q))
                /\ tokenTimetable'[Len(tokenTimetable) + k]
                     = TimetableEntry(root.userId, items[k].offerGroup,
                                      ItemGrant(offers, items, k, Q), now)
           /\ \A g \in OfferGroups :
                Balance(SheetOf(userCredits', lastOp'.user), g)
                  - Balance(SheetOf(userCredits, lastOp'.user), g)
                = SeqSum([k \in 1..n |-> IF items[k].offerGroup = g
                                         THEN ItemGrant(offers, items, k, Q) ELSE 0])
                  + (IF root.offerGroup = g THEN OrZero(root.tokenCount) ELSE 0)]_vars

\* the expiry of a purchase of q cycles starting at starts
Expiry(starts, cycle, q, customCycle) ==
  starts + (CASE cycle = "once" -> 0
              [] cycle = "daily" -> q
              [] cycle = "weekly" -> 7 * q
              [] cycle = "bi-weekly" -> 14 * q
              [] cycle = "custom" -> (OrZero(customCycle) * q) \div SecondsPerDay)

\* the step applies a payment to an order that was never applied before
FirstApplication ==
  /\ IsApplication(lastOp')
  /\ orders'[lastOp'.orderId].status = "paid"
  /\ lastOp'.orderId <= Len(orders) => ~IsSet(orders[lastOp'.orderId].starts)

\* C9: after createOrder for an offer with tokenCount c and a payment that
\* resolves to paid, the stored order has tokenCount = c * q (q the quantity,
\* 1 when none was given) and expires = Expiry(starts, cycle, q, customCycle).
C9_PurchaseRoundTrip ==
  [][FirstApplication
     => LET order == orders'[lastOp'.orderId]
            offer == offers[order.offerId]
            q == OrElse(order.quantity, 1)
        IN /\ order.tokenCount = Some(OrZero(offer.tokenCount) * q)
           /\ order.expires = Some(Expiry(order.starts[1], offer.cycle, q, offer.customCycle))]_vars

\* a purchase of two cycles of a token offer was paid
C9_Witness ==
  /\ IsApplication(lastOp)
  /\ lastOp.op = "afterExecute"
  /\ orders[lastOp.orderId].status = "paid"
  /\ orders[lastOp.orderId].quantity = Some(2)
  /\ orders[lastOp.orderId].tokenCount = Some(4)
  /\ orders[lastOp.orderId].expires = Some(orders[lastOp.orderId].starts[1] + 2)

\* the expiries of the user's paid orders of the offerGroup
PaidExpiries(u, g) ==
  {orders[i].expires[1] :
     i \in {j \in 1..Len(orders) : /\ orders[j].userId = u
                                   /\ orders[j].offerGroup = g
                                   /\ orders[j].status = "paid"
                                   /\ IsSet(orders[j].expires)}}

\* the start date computed for a new order of the user without explicit starts
StartFor(u, offerId, g) ==
  computeStartDate(orders, offers,
                   [starts |-> Undefined, offerId |-> offerId, offerGroup |-> g, userId |-> u],
                   now)

\* C10: for an order without explicit starts the start date is now when the
\* offer's appendDate is false or the offer is missing; when appendDate is
\* true it is the later of now and the latest expires among the same user's
\* paid orders of the same offerGroup (now when there is none).  Nothing else
\* (other users, other offerGroups, other statuses) bears on it.
C10_StartDatePolicy ==
  \A u \in Users, g \in OfferGroups, offerId \in DOMAIN offers \cup {"gone"} :
    LET r == StartFor(u, offerId, g)
        append == offerId \in DOMAIN offers /\ offers[offerId].appendDate
        E == PaidExpiries(u, g)
    IN /\ r.err = ""
       /\ IF ~append \/ E = {}
          THEN r.val = now
          ELSE /\ r.val >= now
               /\ \A e \in E : r.val >= e
               /\ r.val = now \/ r.val \in E

\* the start is appended after the user's own running expiry while another
\* user's paid order of the group expires later still
C10_Witness ==
  \E i, j \in 1..Len(orders) :
    /\ orders[i].userId = "u1" /\ orders[j].userId = "u2"
    /\ orders[i].offerGroup = "A" /\ orders[j].offerGroup = "A"
    /\ orders[i].status = "paid" /\ orders[j].status = "paid"
    /\ orders[i].expires[1] > now
    /\ orders[j].expires[1] > orders[i].expires[1]
    /\ StartFor("u1", "o2", "A").val = orders[i].expires[1]

\* afterExecute was handed the stored order lastOp' names, which was not paid
\* and carried a start date of its own
AppliedExplicit ==
  /\ lastOp'.op = "afterExecute"
  /\ orders[lastOp'.orderId].status # "paid"
  /\ IsSet(orders[lastOp'.orderId].starts)

\* C11: an explicit starts is kept as it is when starts >= now (the order is
\* paid with that start and the expiry counted from it); when starts < now the
\* payment application fails with InvalidOrderError, no expiry is computed,
\* no ActivatedOffer changes and no TokenTimetable entry is written.
C11_ExplicitStart ==
  [][AppliedExplicit
     => LET id == lastOp'.orderId
            starts == orders[id].starts[1]
            q == OrElse(orders[id].quantity, 1)
        IN IF starts >= now
           THEN /\ lastOp'.err = ""
                /\ orders'[id].starts = Some(starts)
                /\ orders'[id].status = "paid"
                     => orders'[id].expires
                          = Some(Expiry(starts, orders[id].cycle, q, orders[id].customCycle))
           ELSE /\ orders'[id].status # "paid"
                /\ orders'[id].expires = orders[id].expires
                /\ tokenTimetable' = tokenTimetable
                /\ \A u \in Users : SheetOf(userCredits', u) = SheetOf(userCredits, u)
                /\ lastOp'.err = "InvalidOrderError" \/ orders'[id].status = "refused"]_vars

\* a payment was refused because the explicit start date had passed
C11_Witness ==
  /\ lastOp.op = "afterExecute"
  /\ lastOp.err = "InvalidOrderError"
  /\ orders[lastOp.orderId].starts[1] < now
  /\ orders[lastOp.orderId].status = "pending"

\* the ActivatedOffers of a balance sheet whose recorded expires has been reached at t
ExpiredGroups(sheet, t) ==
  {i \in 1..Len(sheet) : IsSet(sheet[i].expires) /\ sheet[i].expires[1] <= t}

\* C12: when checkForExpiredOrders runs for a user, every ActivatedOffer of
\* that user with expires <= now is returned in expired, is absent from the
\* persisted balance sheet afterwards, and every order of that user and
\* offerGroup that was paid with expires <= now has status expired afterwards.
C12_SweepEffect ==
  [][lastOp'.op = "checkForExpiredOrders"
     => LET u == lastOp'.user
            sheet == SheetOf(userCredits, u)
        IN \A i \in ExpiredGroups(sheet, now) :
             /\ InList(lastOp'.expired, sheet[i].offerGroup)
             /\ GroupIndex(SheetOf(userCredits', u), sheet[i].offerGroup) = 0
             /\ \A k \in 1..Len(orders) :
                  (/\ orders[k].userId = u
                   /\ orders[k].offerGroup = sheet[i].offerGroup
                   /\ orders[k].status = "paid"
                   /\ orders[k].expires[1] <= now)
                  => orders'[k].status = "expired"]_vars

\* the sweep effect for the users whose aggregate is stored under the user's
\* own identifier, the only ones userCreditsDao.findById(userId) finds
C12_SweepEffectOwnId ==
  [][(/\ lastOp'.op = "checkForExpiredOrders"
      /\ FindCreditsById(userCredits, lastOp'.user) # {})
     => LET u == lastOp'.user
            sheet == SheetOf(userCredits, u)
        IN \A i \in ExpiredGroups(sheet, now) :
             /\ InList(lastOp'.expired, sheet[i].offerGroup)
             /\ GroupIndex(SheetOf(userCredits', u), sheet[i].offerGroup) = 0
             /\ \A k \in 1..Len(orders) :
                  (/\ orders[k].userId = u
                   /\ orders[k].offerGroup = sheet[i].offerGroup
                   /\ orders[k].status = "paid"
                   /\ orders[k].expires[1] <= now)
                  => orders'[k].status = "expired"]_vars

\* the configured threshold of the offerGroup is reached by the balance b
ThresholdHit(low, offerGroup, b) ==
  /\ LowLimit(low, offerGroup) # 0
  /\ b - low[1][LowLimit(low, offerGroup)].min <= 0

\* what a sweep of user u with arguments w and low, whose outcome is lastOp',
\* has to report for the ActivatedOffer g by the dates alone
DateClassified(g, w, low) ==
  /\ IsSet(g.expires)
       => /\ InList(lastOp'.expired, g.offerGroup) <=> g.expires[1] <= now
          /\ (now < g.expires[1] /\ g.expires[1] <= now + OrZero(w))
               => InList(lastOp'.warnings, g.offerGroup)
          /\ (~IsSet(low) /\ InList(lastOp'.warnings, g.offerGroup))
               => (now < g.expires[1] /\ g.expires[1] <= now + OrZero(w))
  /\ (/\ ~IsSet(g.expires) \/ g.expires[1] > now + OrZero(w)
      /\ ~ThresholdHit(low, g.offerGroup, g.tokens))
       => /\ ~InList(lastOp'.expired, g.offerGroup)
          /\ ~InList(lastOp'.warnings, g.offerGroup)

\* C13: in a sweep with warnBeforeInMillis w, an ActivatedOffer g with a
\* recorded expires is in expired iff g.expires <= now and is in warnings for
\* the date reason iff now < g.expires <= now + w; one without expires, or
\* with g.expires > now + w and no low-token threshold hit, is in neither list.
C13_SweepClassification ==
  [][\A userId \in Users, args \in SweepArgs :
       CheckForExpiredOrders(userId, args[1], args[2])
       => \A i \in 1..Len(SheetOf(userCredits, userId)) :
            DateClassified(SheetOf(userCredits, userId)[i], args[1], args[2])]_vars

\* the classification for the users whose aggregate is stored under the
\* user's own identifier
C13_SweepClassificationOwnId ==
  [][\A userId \in Users, args \in SweepArgs :
       (/\ CheckForExpiredOrders(userId, args[1], args[2])
        /\ FindCreditsById(userCredits, userId) # {})
       => \A i \in 1..Len(SheetOf(userCredits, userId)) :
            DateClassified(SheetOf(userCredits, userId)[i], args[1], args[2])]_vars

\* C14: in a sweep with thresholds low, every ActivatedOffer with a recorded
\* expires whose balance b reaches the threshold m configured for its
\* offerGroup (b - m <= 0, also for b = 0 and b < 0) is reported in warnings,
\* whatever its dates; a group with no configured threshold is not reported
\* for the low-token reason.
C14_LowTokenWarning ==
  [][\A userId \in Users, args \in SweepArgs :
       CheckForExpiredOrders(userId, args[1], args[2])
       => \A i \in 1..Len(SheetOf(userCredits, userId)) :
            LET g == SheetOf(userCredits, userId)[i]
            IN /\ (IsSet(g.expires) /\ ThresholdHit(args[2], g.offerGroup, g.tokens))
                    => InList(lastOp'.warnings, g.offerGroup)
               /\ (/\ LowLimit(args[2], g.offerGroup) = 0
                   /\ InList(lastOp'.warnings, g.offerGroup))
                    => (now < g.expires[1] /\ g.expires[1] <= now + OrZero(args[1]))]_vars

\* the low-token warning for the users whose aggregate is stored under the
\* user's own identifier and for the groups that have not expired
C14_LowTokenWarningOwnId ==
  [][\A userId \in Users, args \in SweepArgs :
       (/\ CheckForExpiredOrders(userId, args[1], args[2])
        /\ FindCreditsById(userCredits, userId) # {})
       => \A i \in 1..Len(SheetOf(userCredits, userId)) :
            LET g == SheetOf(userCredits, userId)[i]
            IN (/\ IsSet(g.expires)
                /\ g.expires[1] > now
                /\ ThresholdHit(args[2], g.offerGroup, g.tokens))
                 => InList(lastOp'.warnings, g.offerGroup)]_vars

\* the same, leaving out the balance 0
C14_LowTokenWarningNonZero ==
  [][\A userId \in Users, args \in SweepArgs :
       (/\ CheckForExpiredOrders(userId, args[1], args[2])
        /\ FindCreditsById(userCredits, userId) # {})
       => \A i \in 1..Len(SheetOf(userCredits, userId)) :
            LET g == SheetOf(userCredits, userId)[i]
            IN /\ (/\ IsSet(g.expires)
                   /\ g.expires[1] > now
                   /\ g.tokens # 0
                   /\ ThresholdHit(args[2], g.offerGroup, g.tokens))
                    => InList(lastOp'.warnings, g.offerGroup)
               /\ (/\ LowLimit(args[2], g.offerGroup) = 0
                   /\ InList(lastOp'.warnings, g.offerGroup))
                    => (now < g.expires[1] /\ g.expires[1] <= now + OrZero(args[1]))]_vars

Due(ordersDb, u, g, t) ==
  {k \in 1..Len(ordersDb) :
     /\ ordersDb[k].userId = u
     /\ ordersDb[k].offerGroup = g
     /\ ordersDb[k].status = "paid"
     /\ ordersDb[k].expires[1] <= t}

\* the tokens of the ledger lines of g that record a consumption strictly
\* between two instants
ConsumedBetween(ttDb, g, from, to) ==
  SeqSum([i \in 1..Len(ttDb) |->
            IF ttDb[i].offerGroup = g /\ ttDb[i].tokens < 0
               /\ from < ttDb[i].createdAt /\ ttDb[i].createdAt < to
            THEN ttDb[i].tokens ELSE 0])

LoweredBy(before, after, g, n) ==
  LET i == GroupIndex(before, g)
  IN IF i # 0
     THEN after = [before EXCEPT ![i].tokens = before[i].tokens - n]
     ELSE /\ Len(after) = Len(before) + 1
          /\ SubSeq(after, 1, Len(before)) = before
          /\ after[Len(after)].offerGroup = g
          /\ after[Len(after)].tokens = 0 - n
          /\ ~IsSet(after[Len(after)].expires)

\* C17: tokensConsumed(userId, G, n) for a user that has a UserCredits
\* aggregate appends exactly one TokenTimetable entry (userId, G, -n) and
\* lowers the balance of G by exactly n, from b to b - n, or by inserting an
\* ActivatedOffer with balance -n and no expires when G had none; no other
\* offerGroup, no subscription, no order and no other user is changed.
C17_TokensConsumed ==
  [][\A userId \in Users, offerGroup \in OfferGroups, n \in ConsumedCounts :
       (TokensConsumed(userId, offerGroup, n) /\ IsSet(userCredits[userId]))
       => /\ lastOp'.err = ""
          /\ Len(tokenTimetable') = Len(tokenTimetable) + 1
          /\ SubSeq(tokenTimetable', 1, Len(tokenTimetable)) = tokenTimetable
          /\ LET entry == tokenTimetable'[Len(tokenTimetable')]
             IN /\ entry.userId = userId
                /\ entry.offerGroup = offerGroup
                /\ entry.tokens = 0 - n
          /\ LoweredBy(SheetOf(userCredits, userId), SheetOf(userCredits', userId),
                       offerGroup, n)
          /\ Balance(SheetOf(userCredits', userId), offerGroup)
               = Balance(SheetOf(userCredits, userId), offerGroup) - n
          /\ userCredits'[userId][1].subscriptions = userCredits[userId][1].subscriptions
          /\ \A u \in Users \ {userId} : userCredits'[u] = userCredits[u]
          /\ orders' = orders]_vars

\* a consumption in an offerGroup the user had no ActivatedOffer for inserted
\* one with balance -n and no expires, next to a funded group it left alone
C17_Witness ==
  /\ lastOp.op = "tokensConsumed"
  /\ lastOp.err = ""
  /\ orders # <<>>
  /\ \E i \in 1..Len(SheetOf(userCredits, lastOp.user)) :
       /\ SheetOf(userCredits, lastOp.user)[i].tokens = 0 - 2
       /\ ~IsSet(SheetOf(userCredits, lastOp.user)[i].expires)
  /\ \E i \in 1..Len(SheetOf(userCredits, lastOp.user)) :
       /\ SheetOf(userCredits, lastOp.user)[i].tokens > 0
       /\ IsSet(SheetOf(userCredits, lastOp.user)[i].expires)

\* the positions of a list that hold an offer with that overridingKey
WithKey(list, k) == {i \in 1..Len(list) : list[i].overridingKey = k}

\* the first offer of the list, among those with overridingKey k, whose
\* weight no other one with that key exceeds
Winner(list, k) ==
  LET best == {i \in WithKey(list, k) : \A j \in WithKey(list, k) : list[j].weight <= list[i].weight}
  IN list[CHOOSE i \in best : \A j \in best : i <= j]

\* C18: for every overridingKey k carried by a dependent offer the result of
\* mergeOffers holds exactly one dependent offer with key k, the first seen of
\* those with the maximum weight, and no regular offer with key k; every
\* regular offer whose key no dependent offer carries is in the result exactly
\* once; the regular offers kept precede the winning dependent offers.
C18_MergeOffers ==
  lastOp.op = "mergeOffers"
  => LET regular == lastOp.regular
         dependent == lastOp.dependent
         result == lastOp.returned
         keys == {dependent[i].overridingKey : i \in 1..Len(dependent)}
     IN /\ \A k \in keys :
             /\ Cardinality({j \in WithKey(result, k) : result[j].kind = "dependent"}) = 1
             /\ \A j \in WithKey(result, k) :
                  /\ result[j].kind = "dependent"
                  /\ result[j] = Winner(dependent, k)
        /\ \A i \in 1..Len(regular) :
             regular[i].overridingKey \notin keys
             => Cardinality({j \in 1..Len(result) : result[j] = regular[i]}) = 1
        /\ \A j \in 1..Len(result) :
             result[j].kind = "dependent" => result[j].overridingKey \in keys
        /\ \A i, j \in 1..Len(result) :
             (result[i].kind = "regular" /\ result[j].kind = "dependent") => i < j

\* a merge in which two dependent offers of one key tie at the maximum weight
\* above a third, a regular offer is overridden and another one is kept
C18_Witness ==
  /\ lastOp.op = "mergeOffers"
  /\ \E i, j, l \in 1..Len(lastOp.dependent) :
       /\ i < j
       /\ lastOp.dependent[i].overridingKey = "K"
       /\ lastOp.dependent[j].overridingKey = "K"
       /\ lastOp.dependent[l].overridingKey = "K"
       /\ lastOp.dependent[i].weight = lastOp.dependent[j].weight
       /\ lastOp.dependent[l].weight < lastOp.dependent[i].weight
       /\ InList(lastOp.returned, lastOp.dependent[i])
  /\ \E i, j \in 1..Len(lastOp.regular) :
       /\ lastOp.regular[i].overridingKey = "K"
       /\ lastOp.regular[j].overridingKey = "L"
       /\ ~InList(lastOp.returned, lastOp.regular[i])
       /\ InList(lastOp.returned, lastOp.regular[j])

\* the user has a Subscription with status paid whose offerGroup unlocks the offer
Unlocked(ucDb, u, offer) ==
  /\ IsSet(ucDb[u])
  /\ \E i \in 1..Len(ucDb[u][1].subscriptions) :
       /\ ucDb[u][1].subscriptions[i].status = "paid"
       /\ ucDb[u][1].subscriptions[i].offerGroup \in offer.unlockedBy

\* C19: loadOffers with no user returns only offers whose unlockedBy is
\* empty, with or without envTags (every given tag must then match);
\* loadOffers for a user returns an offer with a non-empty unlockedBy only if
\* that user has a paid Subscription whose offerGroup is in the unlockedBy.
C19_OfferVisibility ==
  lastOp.op = "loadOffers"
  => \A j \in 1..Len(lastOp.returned) :
       LET offer == lastOp.returned[j]
       IN /\ ~IsSet(lastOp.user)
               => /\ offer.unlockedBy = {}
                  /\ IsSet(lastOp.envTags) => lastOp.envTags[1] \subseteq offer.tags
          /\ (IsSet(lastOp.user) /\ offer.unlockedBy # {})
               => Unlocked(userCredits, lastOp.user[1], offer)

\* the visibility of offers when no envTags are given
C19_OfferVisibilityNoTags ==
  (lastOp.op = "loadOffers" /\ ~IsSet(lastOp.envTags))
  => \A j \in 1..Len(lastOp.returned) :
       LET offer == lastOp.returned[j]
       IN /\ ~IsSet(lastOp.user) => offer.unlockedBy = {}
          /\ (IsSet(lastOp.user) /\ offer.unlockedBy # {})
               => Unlocked(userCredits, lastOp.user[1], offer)

\* the quantity asked for exceeds the limit the offer sets
ExceedsLimit(offer, quantity) ==
  /\ IsSet(offer.quantityLimit)
  /\ IsSet(quantity)
  /\ quantity[1] > offer.quantityLimit[1]

\* C20: createOrder with a quantity above the offer's quantityLimit fails
\* with InvalidOrderError and has no effect: no order, no Subscription, no
\* UserCredits aggregate and no call of the payment gateway; with a quantity
\* within the limit, without limit or without quantity the check does not fail.
C20_QuantityLimit ==
  [][\A offerId \in DOMAIN offers, userId \in Users, quantity \in Quantities :
       CreateOrder(offerId, userId, quantity, Some(1), userId)
       => IF ExceedsLimit(offers[offerId], quantity)
          THEN /\ lastOp'.err = "InvalidOrderError"
               /\ ~lastOp'.gateway
               /\ orders' = orders
               /\ userCredits' = userCredits
               /\ tokenTimetable' = tokenTimetable
               /\ held' = held
          ELSE /\ lastOp'.err # "InvalidOrderError"
               /\ Len(orders') > Len(orders)
               /\ IsSet(userCredits'[userId])]_vars

\* an order was refused for its quantity after another one, of a quantity the
\* offer's limit allows, had been taken
C20_Witness ==
  /\ lastOp.op = "createOrder"
  /\ lastOp.err = "InvalidOrderError"
  /\ \E k \in 1..Len(orders) :
       /\ IsSet(offers[orders[k].offerId].quantityLimit)
       /\ orders[k].quantity = Some(2)
  /\ \E u \in Users : ~IsSet(userCredits[u])

\* the step is a createOrder that stored the order lastOp' names
Created == lastOp'.op = "createOrder" /\ lastOp'.orderId # 0

\* the Subscriptions of a user that refer to the order
SubscriptionsOf(ucDb, u, orderId) ==
  IF IsSet(ucDb[u])
  THEN {i \in 1..Len(ucDb[u][1].subscriptions) : ucDb[u][1].subscriptions[i].orderId = orderId}
  ELSE {}

\* the tokens a paid order brings to offerGroup g: its own in its group, and
\* those of the items of its offer
OrderGrant(cat, root, g) ==
  LET items == cat[root.offerId].combinedItems
  IN SeqSum([k \in 1..Len(items) |->
               IF items[k].offerGroup = g
               THEN ItemGrant(cat, items, k, OrOne(root.quantity)) ELSE 0])
     + (IF root.offerGroup = g THEN OrZero(root.tokenCount) ELSE 0)

\* C21: createOrder of an order whose total is 0 never calls the gateway and,
\* when it returns, has stored the order as paid with the single history entry
\* paid, its Subscription is paid and its tokens are on the balance sheet and
\* in the ledger exactly once; an order whose total is > 0 is stored pending
\* and stays so until afterExecute is called.
C21_FreeOrdersAutoPaid ==
  [][/\ (Created /\ orders'[lastOp'.orderId].total = 0)
          => /\ ~lastOp'.gateway
             /\ lastOp'.err = ""
                  => LET order == orders'[lastOp'.orderId]
                         u == lastOp'.user
                     IN /\ order.status = "paid"
                        /\ order.history = <<"paid">>
                        /\ SubscriptionsOf(userCredits', u, order.id) # {}
                        /\ \A i \in SubscriptionsOf(userCredits', u, order.id) :
                             userCredits'[u][1].subscriptions[i].status = "paid"
                        /\ \A g \in OfferGroups :
                             /\ Balance(SheetOf(userCredits', u), g)
                                  - Balance(SheetOf(userCredits, u), g)
                                  = OrderGrant(offers, order, g)
                             /\ GrantedSince(tokenTimetable', Len(tokenTimetable), u, g)
                                  = OrderGrant(offers, order, g)
     /\ (Created /\ orders'[lastOp'.orderId].total > 0)
          => /\ orders'[lastOp'.orderId].status = "pending"
             /\ tokenTimetable' = tokenTimetable
             /\ SheetOf(userCredits', lastOp'.user) = SheetOf(userCredits, lastOp'.user)
     /\ \A id \in 1..Len(orders) :
          (/\ orders[id].total > 0
           /\ orders[id].status = "pending"
           /\ orders'[id].status # "pending")
          => lastOp'.op \in {"afterExecute", "afterExecuteHeld"}]_vars

\* the same for the free orders whose offerGroups are absent from the balance
\* sheet or hold a balance other than 0 when the order is created
C21_FreeOrdersAutoPaidFunded ==
  [][(/\ Created
      /\ orders'[lastOp'.orderId].total = 0
      /\ lastOp'.err = ""
      /\ \A g \in OfferGroups :
           LET i == GroupIndex(SheetOf(userCredits, lastOp'.user), g)
           IN i # 0 => SheetOf(userCredits, lastOp'.user)[i].tokens # 0
      /\ offers[orders'[lastOp'.orderId].offerId].combinedItems = <<>>)
     => LET order == orders'[lastOp'.orderId]
            u == lastOp'.user
        IN /\ ~lastOp'.gateway
           /\ order.status = "paid"
           /\ order.history = <<"paid">>
           /\ SubscriptionsOf(userCredits', u, order.id) # {}
           /\ \A i \in SubscriptionsOf(userCredits', u, order.id) :
                userCredits'[u][1].subscriptions[i].status = "paid"
           /\ \A g \in OfferGroups :
                /\ Balance(SheetOf(userCredits', u), g) - Balance(SheetOf(userCredits, u), g)
                     = OrderGrant(offers, order, g)
                /\ GrantedSince(tokenTimetable', Len(tokenTimetable), u, g)
                     = OrderGrant(offers, order, g)]_vars

\* C22: when the payment result is applied for an order for which the user's
\* UserCredits holds no Subscription with that orderId, the operation fails
\* with the illegal-state error and repairs nothing: no Subscription is added
\* for the order, no ActivatedOffer changes, no TokenTimetable entry is written.
C22_NoSubscriptionIsFatal ==
  [][(/\ lastOp'.op = "afterExecute"
      /\ orders[lastOp'.orderId].status # "paid"
      /\ IsSet(userCredits[lastOp'.user])
      /\ SubscriptionsOf(userCredits, lastOp'.user, lastOp'.orderId) = {})
     => /\ lastOp'.err = "PaymentError"
        /\ SubscriptionsOf(userCredits', lastOp'.user, lastOp'.orderId) = {}
        /\ SheetOf(userCredits', lastOp'.user) = SheetOf(userCredits, lastOp'.user)
        /\ tokenTimetable' = tokenTimetable]_vars

\* the number of units of its cycle an order runs
TotalQuantity(call) ==
  (IF IsSet(call.quantityMultiplier) THEN call.quantityMultiplier[1] ELSE 1)
    * (IF IsSet(call.order.quantity) THEN call.order.quantity[1] ELSE 1)

OwnConsumedBetween(ttDb, u, g, from, to) ==
  SeqSum([i \in 1..Len(ttDb) |->
            IF ttDb[i].userId = u /\ ttDb[i].offerGroup = g /\ ttDb[i].tokens < 0
               /\ from < ttDb[i].createdAt /\ ttDb[i].createdAt < to
            THEN ttDb[i].tokens ELSE 0])

\* an operation invoked for a leaves the aggregate and the orders of b alone
LeavesAlone(a, b) ==
  /\ userCredits'[b] = userCredits[b]
  /\ Len(orders') >= Len(orders)
  /\ \A k \in 1..Len(orders') :
       IF k <= Len(orders) THEN orders[k].userId = b => orders'[k] = orders[k]
       ELSE orders'[k].userId = a

\* what processExpiredOrderGroup(u, g) returns at t when only the records of u count
OwnTokensToSubtract(ordersDb, ttDb, u, g, t) ==
  SeqSum([k \in 1..Len(ordersDb) |->
            IF k \in Due(ordersDb, u, g, t)
            THEN OrZero(ordersDb[k].tokenCount)
                 + OwnConsumedBetween(ttDb, u, g, ordersDb[k].starts[1], ordersDb[k].expires[1])
            ELSE 0])

\* C24: users are isolated: no operation invoked for a user changes another
\* user's UserCredits or orders, and what an operation invoked for a user
\* yields (the tokensToSubtract of processExpiredOrderGroup among them) is
\* determined by that user's own records, whatever the other users consumed
\* in the same offerGroup.
C24_UsersIsolated ==
  [][\A a \in Users :
       lastOp'.user = a /\ ops' # ops
       => /\ \A b \in Users \ {a} : LeavesAlone(a, b)
          /\ lastOp'.op = "processExpiredOrderGroup"
               => lastOp'.returned
                    = OwnTokensToSubtract(orders, tokenTimetable, a, lastOp'.offerGroup, now)]_vars

\* the part of C24 that holds: no operation invoked for a user changes another
\* user's UserCredits or orders
C24_UsersIsolatedStorage ==
  [][\A a \in Users :
       lastOp'.user = a /\ ops' # ops
       => \A b \in Users \ {a} : LeavesAlone(a, b)]_vars

Occurrences(s, e) == Cardinality({k \in 1..Len(s) : s[k] = e})

\* how often the calls together wrote the ledger line e
Written(cs, e) == SeqSum([k \in 1..Len(cs) |-> Occurrences(cs[k].wrote, e)])

\* the ledger lines a call writes by the time it has ended
OwnEntries(call) ==
  IF call.kind = "tokensConsumed"
  THEN <<TimetableEntry(call.userId, call.offerGroup, 0 - call.count, 0)>>
  ELSE IF call.status = "paid" /\ call.err # "DuplicateAttemptError"
  THEN <<TimetableEntry(call.userId, call.offerGroup,
                        OrOne(call.handed[1].quantity) * OrZero(call.handed[1].tokenCount), 0)>>
  ELSE <<>>

\* C25: under every interleaving of the storage steps of concurrent
\* tokensConsumed and afterExecute calls, every call that completes has
\* contributed exactly its own TokenTimetable entries, each present as often
\* as the calls wrote it, and no existing entry is removed or altered.
C25_LedgerAppendOnly ==
  /\ Len(tokenTimetable) >= Len(RaceStart.tt)
  /\ SubSeq(tokenTimetable, 1, Len(RaceStart.tt)) = RaceStart.tt
  /\ \A k \in DOMAIN calls : calls[k].pc = "done" => calls[k].wrote = OwnEntries(calls[k])
  /\ LET added == SubSeq(tokenTimetable, Len(RaceStart.tt) + 1, Len(tokenTimetable))
     IN /\ \A j \in 1..Len(added) : Occurrences(added, added[j]) = Written(calls, added[j])
        /\ Len(added) = SeqSum([k \in DOMAIN calls |-> Len(calls[k].wrote)])

AllDone == \A k \in DOMAIN calls : calls[k].pc = "done"

\* two calls of one user that wrote equal lines while they overlapped: both
\* lines are on the ledger
C25_Witness ==
  /\ AllDone
  /\ \E i, j \in DOMAIN calls :
       /\ i # j
       /\ calls[i].kind = "tokensConsumed"
       /\ calls[i].wrote = calls[j].wrote
       /\ calls[i].overlapped
       /\ Occurrences(tokenTimetable, calls[i].wrote[1]) = 2

\* storage after one call ran alone from storage st
SerialStep(st, call) ==
  IF call.kind = "tokensConsumed"
  THEN [orders |-> st.orders,
        userCredits |->
          IF IsSet(st.userCredits[call.userId])
          THEN [st.userCredits EXCEPT ![call.userId] =
                  Some([@[1] EXCEPT !.offers =
                          tokensConsumed(@, call.offerGroup, call.count, 0)])]
          ELSE st.userCredits,
        tt |-> Append(st.tt, TimetableEntry(call.userId, call.offerGroup, 0 - call.count, 0))]
  ELSE LET r == afterExecute(st.orders, st.userCredits, st.tt, call.handed[1],
                             call.status, PlainCatalog, 0)
       IN [orders |-> r.orders, userCredits |-> r.userCredits, tt |-> r.tt]

\* storage after the calls ran one at a time in the order in which they ended,
\* from the call of the given rank on
RECURSIVE SerialFrom(_, _)
SerialFrom(st, rank) ==
  IF \A k \in DOMAIN calls : calls[k].rank # rank THEN st
  ELSE SerialFrom(SerialStep(st, calls[CHOOSE k \in DOMAIN calls : calls[k].rank = rank]),
                  rank + 1)

\* the tokens the tokensConsumed calls of u took from g
ConsumedBy(u, g) ==
  SeqSum([k \in DOMAIN calls |->
            IF calls[k].kind = "tokensConsumed" /\ calls[k].userId = u
               /\ calls[k].offerGroup = g
            THEN calls[k].count ELSE 0])

\* C26: the balance update is not atomic.  When the calls of a user ran one
\* at a time, the persisted aggregates and orders are those of the serial run,
\* and after tokensConsumed calls alone the balance is the initial one less
\* the counts consumed; a persisted balance that differs from it is found
\* only after calls of that user overlapped, and every ledger line is present
\* in either case.
C26_LostUpdate ==
  AllDone
  => /\ (\A k \in DOMAIN calls : ~calls[k].overlapped)
          => /\ userCredits = SerialFrom(RaceStart, 1).userCredits
             /\ orders = SerialFrom(RaceStart, 1).orders
     /\ (\A k \in DOMAIN calls : calls[k].kind = "tokensConsumed" /\ ~calls[k].overlapped)
          => Balance(SheetOf(userCredits, "u1"), "A")
               = Balance(SheetOf(RaceStart.userCredits, "u1"), "A") - ConsumedBy("u1", "A")
     /\ \A k \in DOMAIN calls :
          \A j \in 1..Len(calls[k].wrote) : Occurrences(tokenTimetable, calls[k].wrote[j]) >= 1

\* two tokensConsumed calls of u1 on group A interleaved and ended, both
\* ledger lines are present and the persisted balance is not the initial one
\* less the two counts
C26_Witness ==
  /\ AllDone
  /\ Len(calls) = 2
  /\ \A k \in DOMAIN calls :
       /\ calls[k].kind = "tokensConsumed"
       /\ calls[k].userId = "u1"
       /\ calls[k].overlapped
       /\ Occurrences(tokenTimetable, calls[k].wrote[1]) >= 1
  /\ Len(tokenTimetable) = Len(RaceStart.tt) + 2
  /\ Balance(SheetOf(userCredits, "u1"), "A")
       # Balance(SheetOf(RaceStart.userCredits, "u1"), "A") - ConsumedBy("u1", "A")

\* the Subscriptions of the aggregates whose status differs from their order's
OutOfStep ==
  {<<u, i>> \in {<<u, i>> \in Users \X (1..(MaxOrders * 3)) :
                   IsSet(userCredits[u]) /\ i <= Len(userCredits[u][1].subscriptions)} :
     LET subscription == userCredits[u][1].subscriptions[i]
     IN subscription.status # orders[subscription.orderId].status}

\* C27: Subscriptions move in lockstep with their order: in every reachable
\* state every Subscription of a user's UserCredits has the status of the
\* order its orderId refers to; after a sweep set an order to expired its
\* Subscription is no longer paid.
C27_SubscriptionsInStep == OutOfStep = {}

\* the part of C27 that holds: a Subscription has the status of its order
\* unless the order expired or an earlier Subscription of the aggregate has the
\* same orderId and offerId
C27_SubscriptionsInStepOtherwise ==
  \A pair \in OutOfStep :
    LET subscriptions == userCredits[pair[1]][1].subscriptions
        subscription == subscriptions[pair[2]]
    IN \/ orders[subscription.orderId].status = "expired"
       \/ \E j \in 1..(pair[2] - 1) :
            /\ subscriptions[j].orderId = subscription.orderId
            /\ subscriptions[j].offerId = subscription.offerId

\* a sweep set an order to expired and its Subscription is still paid
C27_PaidAfterExpiry ==
  /\ lastOp.op = "checkForExpiredOrders"
  /\ \E pair \in OutOfStep :
       /\ userCredits[pair[1]][1].subscriptions[pair[2]].status = "paid"
       /\ orders[userCredits[pair[1]][1].subscriptions[pair[2]].orderId].status = "expired"

\* the entries of a list of bundled items that name a stored offer
Resolvable(cat, combinedItems) == SelectSeq(combinedItems, LAMBDA e : e.offerId \in DOMAIN cat)

Blank(item) == [item EXCEPT !.tokenCount = Undefined, !.cycle = Undefined, !.userId = Undefined]

\* C29: offers are read-only to the core: no operation changes a field of an
\* Offer record or of an entry of its combinedItems as later operations see
\* it; paying a bundle does not write tokenCount, cycle, userId, starts or
\* expires into the offer's combinedItems entries.
C29_OffersReadOnly == [][offers' = offers]_vars

\* the part of C29 that holds: createOrder, tokensConsumed and
\* checkForExpiredOrders leave the offers as they are, and afterExecute leaves
\* every field of an offer and of its entries as it is except the tokenCount,
\* cycle and userId of the entries
C29_OffersReadOnlyOtherwise ==
  [][/\ lastOp'.op # "afterExecute" => offers' = offers
     /\ DOMAIN offers' = DOMAIN offers
     /\ \A id \in DOMAIN offers :
          /\ [offers'[id] EXCEPT !.combinedItems = <<>>] = [offers[id] EXCEPT !.combinedItems = <<>>]
          /\ Len(offers'[id].combinedItems) = Len(offers[id].combinedItems)
          /\ \A j \in 1..Len(offers[id].combinedItems) :
               Blank(offers'[id].combinedItems[j]) = Blank(offers[id].combinedItems[j])]_vars

\* a step in which a root order was paid
RootPaid ==
  /\ lastOp'.op \in {"createOrder", "afterExecute"}
  /\ lastOp'.err = ""
  /\ lastOp'.orderId # 0
  /\ orders'[lastOp'.orderId].status = "paid"
  /\ orders'[lastOp'.orderId].parentId = Undefined
  /\ orders'[lastOp'.orderId].offerId \in DOMAIN offers

\* the index after which the child orders of the step were stored
ChildBase == IF lastOp'.orderId > Len(orders) THEN lastOp'.orderId ELSE Len(orders)

\* the expiries of the paid orders of u in g stored before the step and of the
\* children stored in the step for the items before item j
EarlierExpiries(u, g, j) ==
  {orders[i].expires[1] :
     i \in {i \in 1..Len(orders) : /\ orders[i].userId = u
                                   /\ orders[i].offerGroup = g
                                   /\ orders[i].status = "paid"
                                   /\ IsSet(orders[i].expires)}}
  \cup {orders'[ChildBase + i].expires[1] :
          i \in {i \in 1..(j - 1) : orders'[ChildBase + i].offerGroup = g}}

\* the start the policy gives in group g to item j of a package paid for u
PolicyStart(u, g, j) ==
  LET earlier == EarlierExpiries(u, g, j)
  IN IF earlier = {} \/ SetMax(earlier) < now THEN now ELSE SetMax(earlier)

\* item j of the package paid in the step has the dates of the claim
ItemDated(j) ==
  LET root == orders'[lastOp'.orderId]
      item == offers[root.offerId].combinedItems[j]
      sub == offers[item.offerId]
      child == orders'[ChildBase + j]
      start == PolicyStart(root.userId, item.offerGroup, j)
      quantity == (IF IsSet(item.quantity) THEN item.quantity[1] ELSE 1)
                    * (IF IsSet(root.quantity) THEN root.quantity[1] ELSE 1)
  IN /\ child.parentId = Some(root.id)
     /\ child.offerId = item.offerId
     /\ IF sub.appendDate
        THEN /\ child.starts = Some(start)
             /\ child.expires
                  = Some(calculateExpiryDate(
                           [starts |-> start, cycle |-> sub.cycle,
                            customCycle |-> sub.customCycle, quantity |-> Some(quantity)],
                           Undefined).val)
        ELSE /\ child.starts = root.starts
             /\ child.expires = root.expires

\* the ActivatedOffer of the group of item j has the dates of the item's child
\* order, for the last item of each group
ItemActivated(j) ==
  LET root == orders'[lastOp'.orderId]
      items == offers[root.offerId].combinedItems
      child == orders'[ChildBase + j]
      sheet == SheetOf(userCredits', root.userId)
      k == GroupIndex(sheet, items[j].offerGroup)
  IN (\A i \in (j + 1)..Len(items) : items[i].offerGroup # items[j].offerGroup)
     => /\ k # 0
        /\ sheet[k].starts = child.starts
        /\ sheet[k].expires = child.expires

\* C30: when a root order is paid, each bundled item whose sub-offer has
\* appendDate gets its start from the start-date policy run for the item's own
\* offerGroup (latest paid expiry of the user in that group, clamped to now)
\* and its expiry from that start with quantity item.quantity *
\* rootOrder.quantity; each item whose sub-offer does not set appendDate gets
\* the root order's computed starts and expires; the child order and the
\* item's ActivatedOffer carry the same starts and expires.
C30_BundleDates ==
  [][RootPaid
     => LET items == offers[orders'[lastOp'.orderId].offerId].combinedItems
        IN /\ Len(orders') = ChildBase + Len(items)
           /\ \A j \in 1..Len(items) : ItemDated(j) /\ ItemActivated(j)]_vars

\* the part of C30 that holds: the same for the packages none of whose
\* appended items is in the package's own offerGroup
C30_BundleDatesOtherGroups ==
  [][(/\ RootPaid
      /\ LET root == orders'[lastOp'.orderId]
         IN \A j \in 1..Len(offers[root.offerId].combinedItems) :
              LET item == offers[root.offerId].combinedItems[j]
              IN offers[item.offerId].appendDate => item.offerGroup # root.offerGroup)
     => LET items == offers[orders'[lastOp'.orderId].offerId].combinedItems
        IN /\ Len(orders') = ChildBase + Len(items)
           /\ \A j \in 1..Len(items) : ItemDated(j) /\ ItemActivated(j)]_vars

\* the Subscriptions of the order's own offer on the user's aggregate
RootSubscriptions(ucDb, order) ==
  {j \in SubscriptionsOf(ucDb, order.userId, order.id) :
     ucDb[order.userId][1].subscriptions[j].offerId = order.offerId}

\* C31: when the gateway returns an order with a status other than paid, the
\* order's Subscription takes that status and the user's ActivatedOffers, the
\* TokenTimetable and the set of orders stay as they were: the order itself
\* only changes status and history and no child order is created.
C31_UnpaidGrantsNothing ==
  [][(/\ lastOp'.op \in {"afterExecute", "afterExecuteHeld"}
      /\ lastOp'.err = ""
      /\ lastOp'.gateway
      /\ orders'[lastOp'.orderId].status # "paid")
     => LET id == lastOp'.orderId
            subs == userCredits'[lastOp'.user][1].subscriptions
        IN  /\ RootSubscriptions(userCredits', orders'[id]) # {}
            /\ \A j \in RootSubscriptions(userCredits', orders'[id]) :
                 subs[j].status = orders'[id].status
            /\ SheetOf(userCredits', lastOp'.user) = SheetOf(userCredits, lastOp'.user)
            /\ tokenTimetable' = tokenTimetable
            /\ Len(orders') = Len(orders)
            /\ \A j \in 1..Len(orders) :
                 orders'[j] = [orders[j] EXCEPT !.status = orders'[j].status,
                                                !.history = orders'[j].history]
            /\ \A j \in 1..Len(orders) : j # id => orders'[j] = orders[j]]_vars

C31_Witness ==
  /\ lastOp.op = "afterExecute"
  /\ lastOp.err = ""
  /\ lastOp.gateway
  /\ orders[lastOp.orderId].status \in {"pending", "error"}
  /\ orders[lastOp.orderId].offerId \in DOMAIN offers
  /\ Len(offers[orders[lastOp.orderId].offerId].combinedItems) > 0

\* the lines of a paid order mirror the resolvable entries of its offer's
\* bundle, each with the computed tokenCount and with starts and expires
MirrorsBundle(order) ==
  LET entries == Resolvable(offers, offers[order.offerId].combinedItems)
      lines == order.combinedItems
  IN  /\ Len(lines) = Len(entries)
      /\ \A j \in 1..Len(entries) :
           /\ lines[j].offerGroup = entries[j].offerGroup
           /\ lines[j].offerId = entries[j].offerId
           /\ lines[j].tokenCount = OrZero(offers[entries[j].offerId].tokenCount)
                                      * OrOne(entries[j].quantity) * OrOne(order.quantity)
           /\ IsSet(lines[j].starts)
           /\ IsSet(lines[j].expires)

\* the orders placed through createOrder (not the child orders of a bundle)
\* that are stored as paid
PaidRoots ==
  {id \in 1..Len(orders) : /\ orders[id].status = "paid"
                           /\ ~IsSet(orders[id].parentId)
                           /\ orders[id].offerId \in DOMAIN offers}

\* C32: in every reachable state a paid order's combinedItems holds exactly one
\* entry per resolvable entry of its offer's combinedItems, and that entry
\* carries the computed tokenCount, starts and expires.
C32_CombinedItemsMirrorBundle ==
  \A id \in PaidRoots : MirrorsBundle(orders[id])

\* the same for the orders with a price, which afterExecute applies from the
\* stored order
C32_CombinedItemsMirrorBundlePriced ==
  \A id \in PaidRoots : orders[id].total > 0 => MirrorsBundle(orders[id])

C32_PricedBundlePaid ==
  \E id \in PaidRoots : orders[id].total > 0 /\ Len(orders[id].combinedItems) > 1

\* the orders of an offer with a price that the step stored as paid
NewlyPaidPriced(before, after) ==
  {id \in 1..Len(after) :
     /\ after[id].status = "paid"
     /\ ~IsSet(after[id].parentId)
     /\ after[id].offerId \in DOMAIN offers
     /\ offers[after[id].offerId].price > 0
     /\ (id <= Len(before) => before[id].status # "paid")}

\* C33: an order of an offer with price > 0, whatever quantity createOrder
\* accepted for it, only becomes paid, and only adds tokens to a balance or to
\* the ledger, in an afterExecute whose gateway call returned it as paid.
C33_NoTokensWithoutPayment ==
  [][\A id \in NewlyPaidPriced(orders, orders') :
       /\ lastOp'.op \in {"afterExecute", "afterExecuteHeld"}
       /\ lastOp'.orderId = id
       /\ lastOp'.gateway]_vars

\* the same for the orders whose quantity is omitted or positive
C33_NoTokensWithoutPaymentPositive ==
  [][\A id \in NewlyPaidPriced(orders, orders') :
       (~IsSet(orders'[id].quantity) \/ orders'[id].quantity[1] > 0)
       => /\ lastOp'.op \in {"afterExecute", "afterExecuteHeld"}
          /\ lastOp'.orderId = id
          /\ lastOp'.gateway]_vars

C33_PricedPaidThroughGateway ==
  /\ lastOp.op = "afterExecute"
  /\ lastOp.gateway
  /\ lastOp.err = ""
  /\ orders[lastOp.orderId].status = "paid"
  /\ offers[orders[lastOp.orderId].offerId].price > 0

\* an order of zero units of a priced offer is paid and has granted tokens
C33_ZeroQuantityGranted ==
  \E id \in 1..Len(orders) :
    /\ orders[id].status = "paid"
    /\ orders[id].quantity = Some(0)
    /\ offers[orders[id].offerId].price > 0
    /\ Balance(SheetOf(userCredits, orders[id].userId), orders[id].offerGroup) > 0

\* the sum of the tokens of the user's ledger lines for the offerGroup
LedgerSum(ttDb, u, g) ==
  SeqSum([i \in 1..Len(ttDb) |->
            IF ttDb[i].userId = u /\ ttDb[i].offerGroup = g THEN ttDb[i].tokens ELSE 0])

\* C34: in every state reached by createOrder, afterExecute and tokensConsumed
\* calls run one at a time, with no expiry sweep, the balance of every user and
\* offerGroup (0 when the group is absent) equals the sum of the tokens of the
\* user's TokenTimetable entries for that offerGroup.
C34_LedgerMatchesBalance ==
  \A u \in Users, g \in OfferGroups :
    Balance(SheetOf(userCredits, u), g) = LedgerSum(tokenTimetable, u, g)

\* a step moves balance and ledger by the same amount, unless it is a
\* consumption of a user without aggregate or touches a group whose
\* ActivatedOffer holds no tokens
C34_LedgerMatchesBalanceOtherwise ==
  [][\A u \in Users, g \in OfferGroups :
       (/\ ~(lastOp'.op = "tokensConsumed" /\ lastOp'.err # "")
        /\ ~(/\ GroupIndex(SheetOf(userCredits, u), g) # 0
             /\ Balance(SheetOf(userCredits, u), g) = 0))
       => Balance(SheetOf(userCredits', u), g) - Balance(SheetOf(userCredits, u), g)
            = LedgerSum(tokenTimetable', u, g) - LedgerSum(tokenTimetable, u, g)]_vars

\* balance and ledger differ although no consumption failed: the first ledger
\* line is a grant, so the user's aggregate existed at every consumption
C34_DriftWithoutFailure ==
  /\ Len(tokenTimetable) > 0
  /\ tokenTimetable[1].tokens > 0
  /\ \E u \in Users, g \in OfferGroups :
       Balance(SheetOf(userCredits, u), g) # LedgerSum(tokenTimetable, u, g)

\* the order is paid with a finite expiry
PaidWithExpiry(id) ==
  /\ id <= Len(orders)
  /\ orders[id].status = "paid"
  /\ IsSet(orders[id].expires)

\* C35: every order that is paid with a finite expires eventually has status
\* expired, when time passes and checkForExpiredOrders keeps being invoked for
\* its user, whatever purchases, consumptions and sweeps happen in between.
C35_PaidOrdersExpire ==
  \A id \in 1..MaxOrders :
    PaidWithExpiry(id) ~> (id <= Len(orders) /\ orders[id].status = "expired")

\* a sweep never touches an order whose offerGroup is not on the user's
\* balance sheet, whatever the date
C35_SweepSkipsAbsentGroups ==
  [][lastOp'.op = "checkForExpiredOrders"
     => \A id \in 1..Len(orders) :
          GroupIndex(SheetOf(userCredits, orders[id].userId), orders[id].offerGroup) = 0
          => orders'[id] = orders[id]]_vars

\* a sweep has run after the expiry of a paid order whose offerGroup is no
\* longer on the balance sheet
C35_PaidPastExpiryUnswept ==
  /\ lastOp.op = "checkForExpiredOrders"
  /\ \E id \in 1..Len(orders) :
       /\ orders[id].userId = lastOp.user
       /\ orders[id].status = "paid"
       /\ IsSet(orders[id].expires)
       /\ orders[id].expires[1] < now
       /\ GroupIndex(SheetOf(userCredits, lastOp.user), orders[id].offerGroup) = 0

\* the user has an order of the offerGroup that is paid and expires after t
LiveOrder(ordersDb, u, g, t) ==
  \E id \in 1..Len(ordersDb) :
    /\ ordersDb[id].userId = u
    /\ ordersDb[id].offerGroup = g
    /\ ordersDb[id].status = "paid"
    /\ IsSet(ordersDb[id].expires)
    /\ ordersDb[id].expires[1] > t

\* C36: after checkForExpiredOrders the user's balance sheet still holds the
\* ActivatedOffer of every offerGroup in which the user has an order that is
\* paid and expires in the future.
C36_SweepKeepsLiveCredit ==
  [][lastOp'.op = "checkForExpiredOrders"
     => \A g \in OfferGroups :
          LiveOrder(orders', lastOp'.user, g, now)
          => GroupIndex(SheetOf(userCredits', lastOp'.user), g) # 0]_vars

\* the sweep leaves alone every ActivatedOffer that has not expired itself
C36_SweepKeepsLiveGroups ==
  [][lastOp'.op = "checkForExpiredOrders"
     => \A g \in OfferGroups :
          LET before == SheetOf(userCredits, lastOp'.user)
              after == SheetOf(userCredits', lastOp'.user)
              i == GroupIndex(before, g)
          IN (i # 0 /\ IsSet(before[i].expires) /\ before[i].expires[1] > now)
             => /\ GroupIndex(after, g) # 0
                /\ after[GroupIndex(after, g)] = before[i]]_vars

\* the step is an afterExecute that raised an error
FailedApplication(op) ==
  /\ op.op \in {"afterExecute", "afterExecuteHeld"}
  /\ op.err # ""

\* C37: when afterExecute raises an error the persisted state is the state
\* before the call: no order is saved as paid, and no child order, no
\* TokenTimetable entry and no balance change of that call remains.
C37_FailedApplicationAtomic ==
  [][FailedApplication(lastOp')
     => /\ orders' = orders
        /\ tokenTimetable' = tokenTimetable
        /\ userCredits' = userCredits]_vars

\* the same for the errors raised before the bundle items are gone through
C37_FailedApplicationAtomicOtherwise ==
  [][(FailedApplication(lastOp') /\ lastOp'.err # "TypeError")
     => /\ orders' = orders
        /\ tokenTimetable' = tokenTimetable
        /\ userCredits' = userCredits]_vars

C37_RejectedUnchanged ==
  /\ FailedApplication(lastOp)
  /\ lastOp.err # "TypeError"

\* the user has an aggregate none of whose Subscriptions is paid
NoPaidSubscription(ucDb, u) ==
  /\ IsSet(ucDb[u])
  /\ \A j \in 1..Len(ucDb[u][1].subscriptions) : ucDb[u][1].subscriptions[j].status # "paid"

\* C38: loadOffers for a user who has no UserCredits aggregate yet does not
\* fail and returns exactly the regular offers, as it does for a user whose
\* aggregate holds no paid Subscription.
C38_NewUserSeesRegularOffers ==
  (/\ lastOp.op = "loadOffers"
   /\ IsSet(lastOp.user)
   /\ ~IsSet(userCredits[lastOp.user[1]]))
  => /\ lastOp.err = ""
     /\ lastOp.returned = getRegularOffers(offers, lastOp.envTags)

\* the user whose aggregate holds no paid Subscription gets the regular offers
C38_UnpaidUserSeesRegularOffers ==
  (/\ lastOp.op = "loadOffers"
   /\ IsSet(lastOp.user)
   /\ NoPaidSubscription(userCredits, lastOp.user[1]))
  => /\ lastOp.err = ""
     /\ lastOp.returned = getRegularOffers(offers, lastOp.envTags)

C38_UnpaidUserListed ==
  /\ lastOp.op = "loadOffers"
  /\ IsSet(lastOp.user)
  /\ NoPaidSubscription(userCredits, lastOp.user[1])
  /\ Len(lastOp.returned) > 0

\* C39: the record checkForExpiredOrders(userId) inspects and updates is the
\* record createOrder, afterExecute and tokensConsumed read and write for that
\* userId, also when the record's own identifier differs from the userId.
C39_SameAggregate ==
  \A u \in Users : FindCreditsById(userCredits, u) = FindCreditsByUserId(userCredits, u)

\* the two lookups agree for the aggregates stored under the user's identifier
C39_SameAggregateOwnId ==
  \A u \in Users :
    (IsSet(userCredits[u]) /\ userCredits[u][1].id = u)
    => FindCreditsById(userCredits, u) = FindCreditsByUserId(userCredits, u)

\* a sweep has run for a user whose purchase it could not see
C39_SweepMissedPurchase ==
  /\ lastOp.op = "checkForExpiredOrders"
  /\ FindCreditsById(userCredits, lastOp.user) = {}
  /\ ExpiredGroups(SheetOf(userCredits, lastOp.user), now) # {}

\* no entry appears twice in the list
DuplicateFree(list) ==
  \A i, j \in 1..Len(list) : list[i] = list[j] => i = j

\* C40: the lists checkForExpiredOrders returns are duplicate-free and
\* disjoint: no ActivatedOffer is twice in expired, none is twice in warnings,
\* also when it expires soon and is below its low-token threshold, and none is
\* in both lists.
C40_SweepListsDisjoint ==
  lastOp.op = "checkForExpiredOrders"
  => /\ DuplicateFree(lastOp.expired)
     /\ DuplicateFree(lastOp.warnings)
     /\ \A i \in 1..Len(lastOp.expired) : ~InList(lastOp.warnings, lastOp.expired[i])

\* expired is always duplicate-free, and so are the lists of a sweep in which
\* no group is reported for its low balance
C40_SweepListsDisjointByDate ==
  [][\A userId \in Users, args \in SweepArgs :
       CheckForExpiredOrders(userId, args[1], args[2])
       => /\ DuplicateFree(lastOp'.expired)
          /\ ~IsSet(args[2])
             => /\ DuplicateFree(lastOp'.warnings)
                /\ \A i \in 1..Len(lastOp'.expired) :
                     ~InList(lastOp'.warnings, lastOp'.expired[i])]_vars

\* a group is reported as expired and, for its low balance, as a warning
C40_ExpiredAndWarned ==
  /\ lastOp.op = "checkForExpiredOrders"
  /\ \E i \in 1..Len(lastOp.expired) : InList(lastOp.warnings, lastOp.expired[i])

====
